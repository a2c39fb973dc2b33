---------------------------- MODULE MCActivation ----------------------------
(* Small instances of Activation for TLC.                                  *)
EXTENDS Activation

MCSymmetry == Permutations(Proc)

(* Calls whose failure the code undoes.                                    *)
MCUndone ==
    {"crypt", "integrity"} \X
        {"create", "reload", "reload i", "suspend", "suspend i", "resume i", "wipe", "set"}
    \cup {<<"crypt", "remove">>}
=============================================================================
