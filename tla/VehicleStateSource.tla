------------------------- MODULE VehicleStateSource -------------------------
(***************************************************************************)
(* The link-lost policy and the warning latch that VehicleStateSource owns *)
(* for the live client and the mock.  The object's fields are one record,  *)
(* `source`; each C++ setter is an operator from a record to a record, so  *)
(* a handler that calls several setters composes them in the code's order. *)
(* The seven telltales are the set `warn` of those that are lit.           *)
(***************************************************************************)
EXTENDS Naturals

CONSTANT Warnings      \* the telltales the latch covers (brake, oil, ...)

VARIABLE source

SourceState ==
  [connected  : BOOLEAN,            \* the transport is up
   linkStale  : BOOLEAN,            \* no good frame lately
   bbbStale   : BOOLEAN,            \* the hub says its inputs are silent
   seen       : BOOLEAN,            \* m_vehicleStateSeen
   linkLost   : BOOLEAN,
   syncQueued : BOOLEAN,            \* m_latchedSyncQueued
   warn       : SUBSET Warnings,    \* live telltales
   latched    : SUBSET Warnings,    \* m_latched, what QML shows while lost
   gpsFix     : BOOLEAN,
   gpsPose    : BOOLEAN]

InitialSource ==
  [connected |-> FALSE, linkStale |-> TRUE, bbbStale |-> TRUE,
   seen |-> FALSE, linkLost |-> TRUE, syncQueued |-> FALSE,
   warn |-> {}, latched |-> {}, gpsFix |-> FALSE, gpsPose |-> FALSE]

-----------------------------------------------------------------------------
LinkLost(s) == ~s.connected \/ s.linkStale \/ s.bbbStale \/ ~s.seen

\* Re-derives linkLost; a recovery queues the latch to follow the live set.
UpdateLinkLost(s) ==
  IF s.linkLost = LinkLost(s) THEN s
  ELSE [s EXCEPT !.linkLost   = LinkLost(s),
                 !.syncQueued = s.syncQueued \/ ~LinkLost(s)]

SetConnected(s, v)        == UpdateLinkLost([s EXCEPT !.connected = v])
SetLinkStale(s, v)        == UpdateLinkLost([s EXCEPT !.linkStale = v])
SetBbbStale(s, v)         == UpdateLinkLost([s EXCEPT !.bbbStale = v])
SetVehicleStateSeen(s, v) == UpdateLinkLost([s EXCEPT !.seen = v])

\* Mutant: the latch follows at once, before the frame's stale flag is applied.
SetWarnings_syncNow(s, w) ==
  [s EXCEPT !.warn = w, !.latched = IF s.linkLost THEN s.latched ELSE w]

\* The seven warning setters in a row: a change of any queues one sync.
SetWarnings(s, w) ==
  [s EXCEPT !.warn = w, !.syncQueued = s.syncQueued \/ w # s.warn]

SetGps(s, pose, fix) == [s EXCEPT !.gpsPose = pose, !.gpsFix = fix]

\* The slot of the queued zero-length timer.
SyncLatchedWarnings(s) ==
  [s EXCEPT !.syncQueued = FALSE,
            !.latched    = IF s.linkLost THEN s.latched ELSE s.warn]

-----------------------------------------------------------------------------
(***************************************************************************)
(* While the link is healthy, a latched set that differs from the live one *)
(* always has its sync queued: the coalescing flag never swallows the last *)
(* change (scheduleLatchedSync returns early when one is already queued).  *)
(***************************************************************************)
LatchWillFollow ==
  ~source.linkLost /\ source.latched # source.warn => source.syncQueued

=============================================================================
