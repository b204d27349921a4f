------------------------------- MODULE MCTotp -------------------------------
(* A small instance of Totp for TLC.                                       *)
EXTENDS Totp, TLC

\* Two setups, so that one may overtake an enable, and one login and one disable.
Budgets == "auth.totp.setup" :> 2 @@ "auth.totp.enable" :> 2 @@
           "auth.totp.disable" :> 1 @@ "auth.login" :> 1
=============================================================================
