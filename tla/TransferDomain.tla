---------------------------- MODULE TransferDomain ----------------------------
(***************************************************************************)
(* What the transfer lifecycle, the portfolio and the queue talk about:    *)
(* transfers, CCTP message identities and lifecycle events.                *)
(***************************************************************************)
EXTENDS Naturals

CONSTANTS
  Transfer,  \* transfers of one capital scenario
  Message,   \* CCTP message identities a burn may emit
  NoMessage  \* null

ASSUME DomainAssumption == NoMessage \notin Message

PlainKind == {"RESERVED", "SOURCE_FAILED", "DEPENDENCY_INVALIDATED",
              "CLOSURE_RECORDED"}
MessageKind == {"BURN_CONFIRMED", "ATTESTATION_OBSERVED", "ATTESTATION_DELAYED",
                "DESTINATION_FAILED", "DESTINATION_CONFIRMED"}

(* Events whose identity matters name a message; the others carry none. *)
Event ==
  [kind : PlainKind, message : {NoMessage}, sequence : Nat]
    \cup [kind : MessageKind, message : Message, sequence : Nat]
=============================================================================
