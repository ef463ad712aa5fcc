------------------------------- MODULE Outbox -------------------------------
(***************************************************************************)
(* What the outbox of the bell promises of the telephone, whatever is      *)
(* between them: the history of its deliveries, and no notice twice.       *)
(***************************************************************************)
EXTENDS Naturals

CONSTANTS
    MaxNotices,   \* bound of the model: rows of Notification
    Batch         \* PUSH_BATCH_SIZE

ASSUME BatchAssumption == Batch \in Nat \ {0}

Notices == 1 .. MaxNotices

VARIABLES
    overlap,    \* history: two runs were under way at a time
    delivered   \* history: how often the provider took a notice to the telephone

\* "un fallo del proveedor no se reintenta [...] ni duplica el mensaje si el envio
\* si salio": a notice is one message at most, whatever fails, is lost or stops,
\* while runs do not overlap.
OneMessagePerNotice == ~overlap => \A n \in Notices : delivered[n] <= 1
=============================================================================
