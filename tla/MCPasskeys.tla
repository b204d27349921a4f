----------------------------- MODULE MCPasskeys -----------------------------
(* Small instances of Passkeys for TLC.                                    *)
EXTENDS Passkeys, TLC
=============================================================================
