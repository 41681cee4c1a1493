------------------------------- MODULE MCDgus -------------------------------
(***************************************************************************)
(* An instance of Dgus for TLC: fields of one word, and a name and a       *)
(* password that hold the byte every frame begins with.                    *)
(***************************************************************************)
EXTENDS Dgus

NameSet     == {<<\h5a>>}
PasswordSet == {<<\h5a, \h5b>>}
=============================================================================
