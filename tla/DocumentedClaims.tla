-------------------------- MODULE DocumentedClaims --------------------------
(***************************************************************************)
(* What README.md, the docstrings and the comments of when2leave say of    *)
(* the service, where the code does otherwise.  Each property quotes the   *)
(* sentence it states; the run named in PROJECT.json shows a behaviour of  *)
(* the code that contradicts it.                                           *)
(***************************************************************************)
EXTENDS Tracker

\* The step that completes a full sync.
FullSyncEnds == spc = "full" /\ toFetch = {} /\ spc' = "idle" /\ lastSyncAt' = snow

\* tracker.py:149, "Upsert freshly-fetched events for one calendar and drop ones
\* no longer present": after a full sync whatever is tracked was found by it.
\* A row inserted by a push carries the calendar's URL where the drop query
\* looks for its name, and the rows of a deleted calendar are never looked at.
GoneEventsDropped ==
    [][FullSyncEnds => \A k \in Keys : Tracked(k)' => k \in seen]_vars

\* README.md:71, "resolves LOCATION via OSM Nominatim": the travel time of an
\* event is asked for the coordinates of its address.  A changed address keeps
\* the coordinates of the old one, and no tick geocodes it again.
RoutesToLocation ==
    tpc = "routing" => sess[cur].resolved = sess[cur].location

\* notifier.py:11, "once a notification tier has fired": a row whose tier is
\* terminal has had its message delivered.  The tier is stored also when every
\* attempt to publish failed.
TierMeansHeard ==
    tpc = "idle" =>
        \A k \in Keys : Tracked(k) /\ events[k].notify \in TerminalTier =>
            heard[k] > 0
=============================================================================
