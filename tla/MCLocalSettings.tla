-------------------------- MODULE MCLocalSettings ---------------------------
(***************************************************************************)
(* The desktop and one command line edit one settings file.  A settings    *)
(* file of an old version still has the power field, and may come with a   *)
(* journal of changed power settings: one supply and one scheme.           *)
(***************************************************************************)
EXTENDS LocalSettings

MCSettings == {c \in AllSettings : /\ c.power = c.old
                                    /\ c.old => ~c.auto /\ c.mode = ReadOnly}
=============================================================================
