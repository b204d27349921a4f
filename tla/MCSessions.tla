----------------------------- MODULE MCSessions -----------------------------
(* A small instance of Sessions for TLC.                                   *)
EXTENDS Sessions, TLC

SpellingsOfEmail == "Ann@x" :> "ann@x" @@ "ann@x" :> "ann@x" @@ "bob@x" :> "bob@x"
OneSlug == "acme" :> "acme"
=============================================================================
