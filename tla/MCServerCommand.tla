--------------------------- MODULE MCServerCommand ---------------------------
(* Instances of ServerCommand for TLC. *)
EXTENDS ServerCommand, TLC

CONSTANTS r1, r2

TwoRequests == {r1, r2}

(* The loopback address in two spellings, a public one, and what is not an *)
(* address to ParseIP.                                                     *)
Spellings == {"127.0.0.1", "::ffff:127.0.0.1", "192.0.2.1", "localhost"}
Parsed == ("127.0.0.1" :> "loopback") @@ ("::ffff:127.0.0.1" :> "loopback")
            @@ ("192.0.2.1" :> "public")

PortNumbers == {0, 53, 65536}

Forwarders == {"", "resolver", ":53", "resolver:", "resolver:nowhere", "resolver:53"}
Split == (":53" :> [host |-> "", port |-> "53"])
           @@ ("resolver:" :> [host |-> "resolver", port |-> ""])
           @@ ("resolver:nowhere" :> [host |-> "resolver", port |-> "nowhere"])
           @@ ("resolver:53" :> [host |-> "resolver", port |-> "53"])
=============================================================================
