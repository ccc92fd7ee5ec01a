----------------------------- MODULE PushClaims -----------------------------
(***************************************************************************)
(* What README.md says of DAV Push, where the code does otherwise.         *)
(***************************************************************************)
EXTENDS DavPush

\* README.md:179, "On startup (and after every full sync), when2leave" registers
\* with each tracked calendar collection: in a service that goes on with push
\* enabled, every selected calendar that supports it is registered in the end.
\* The code registers at start-up only; a calendar whose registration failed
\* then, or which has been created since, waits for the next start.
RegisteredInTheEnd ==
    \A c \in Supported : <>[](Serving /\ Enabled /\ c \in Selected => HasRow(c))

\* README.md:188-190, "renews it automatically (checked every 30 minutes, renewed
\* within 1 hour of expiry)": a stored subscription does not lapse for good.
\* But every check is due together with a poll, on the same event loop: where
\* a sync takes longer than the second a job may be late, every one is let go.
RenewedAutomatically ==
    \A c \in Calendars : <>[](Serving /\ Enabled /\ HasRow(c) => Live(c))
=============================================================================
