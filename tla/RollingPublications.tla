-------------------------- MODULE RollingPublications --------------------------
(***************************************************************************)
(* Rolling snapshots of one VolumeProfileEngine at different moments.  A   *)
(* snapshot changes nothing in the engine, so an auxiliary variable keeps  *)
(* what one of them showed, any one, beside the engine's own steps.        *)
(***************************************************************************)
EXTENDS VolumeProfileEngine

CONSTANT MaxCompared  \* bound: calls of ingest_trade around a snapshot kept

ASSUME ComparedAssumption == MaxCompared \in Nat

VARIABLE published  \* history: a rolling snapshot, with its final minutes

publicationVars == <<engineVars, published>>

PublicationInit ==
    /\ EngineInit
    /\ published = [minutes |-> {}, trades |-> {}]

(* An empty histogram is refused (build_profile_snapshot).  Of the window, *)
(* the minutes up to the last one finalized by then are final.             *)
SnapshotRolling(asOf, w) ==
    /\ published.trades = {} /\ ingested <= MaxCompared
    /\ ~ SnapshotBackdated(profile, asOf)
    /\ ~ SnapshotEmpty(profile)
    /\ Rolling(profile, w, asOf) # {}
    /\ published' = [minutes |-> {m \in 0..asOf : asOf - w < m /\ m <= profile.lastFinalized},
                     trades  |-> Rolling(profile, w, asOf)]
    /\ UNCHANGED engineVars

PublicationNext ==
    \/ /\ EngineNext /\ UNCHANGED published
       /\ published.trades # {} => ingested' <= MaxCompared
    \/ \E asOf \in 0..MaxTime, w \in Windows : SnapshotRolling(asOf, w)

PublicationSpec == PublicationInit /\ [][PublicationNext]_publicationVars

-----------------------------------------------------------------------------
(* Properties *)

(* Rolling snapshots of two moments agree.  Of the minutes both windows    *)
(* cover, those finalized when the first was taken hold the same trades in *)
(* every later one, whatever is ingested, finalized and expired between.   *)
(* Of a minute not finalized yet no more is promised: late trades may      *)
(* still join it (finalize_minutes_through, ingest_trade, snapshot).       *)
PublishedMinutesStand ==
    \A m \in published.minutes, asOf \in 0..MaxTime, w \in Windows :
        LET OfMinute(trades) == {t \in trades : MinuteEnd(t.time) = m}
        IN  (asOf >= horizon /\ asOf - w < m /\ m <= asOf) =>
              OfMinute(Rolling(profile, w, asOf)) = OfMinute(published.trades)
=============================================================================
