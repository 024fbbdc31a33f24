------------------------------ MODULE EvidenceSet ------------------------------
(***************************************************************************)
(* The Lift 2 rebuild check (scripts/build_manifest.py): five artifacts on *)
(* disk vouch for each other by content hash, and the check, which reads   *)
(* them one after the other while anybody may rewrite them, reports that   *)
(* final evidence was validated, that none exists yet, or raises.          *)
(*                                                                         *)
(* SHA-256 is injective: the content hash of a document is its body.  A    *)
(* version of the source stands for the hashes of the source contract and  *)
(* for its git revision.  Text fields, periods and counts of a run are     *)
(* left out but for whether the run completed.                             *)
(***************************************************************************)
EXTENDS Naturals, Sequences, FiniteSets, SequencesExt

CONSTANTS
    Cells,        \* the run matrix, <<mode, root>>: 3 deep and 8 smoke runs
    Versions,     \* bound: versions of the source
    RuntimeLists, \* bound: sequences of runs, [cell, backtest, completed, coverage],
                  \* that a runtime document may list
    CoverageLists,\* bound: sequences of rows, [cell, backtest, coverage, reconciles],
                  \* that a coverage document may list
    Published,    \* what the set vouches for when it is there at the start
    MaxChanges    \* bound: rewrites of the source and the artifacts

ASSUME EvidenceAssumption ==
    /\ IsFiniteSet(Cells)
    /\ \A list \in RuntimeLists \cup CoverageLists \cup {Published.runs, Published.rows} :
          list \in Seq(ToSet(list))

VARIABLES
    source,   \* the version checked out
    disk,     \* per artifact <<>> if there is none, or <<[hash, body]>>
    changes,  \* how often source and disk were rewritten
    check,    \* the check running
    report    \* the report file of the last check that wrote one

evidenceVars == <<source, disk, changes, check, report>>

(* in the order the check reads them *)
ReadingOrder == <<"manifest", "runtime", "coverage", "index", "math">>
Artifacts == ToSet(ReadingOrder)

NoCheck == [phase |-> "idle", contract |-> Published.version, read |-> <<>>]
NoReport == [status |-> "none", contract |-> Published.version]

Document(body) == [hash |-> body, body |-> body]

(* the index and the manifest of what is on disk *)
IndexOf(d) == [runtime |-> d.runtime[1].hash, coverage |-> d.coverage[1].hash,
               math |-> d.math[1].hash]
ManifestOf(version, d) == [version |-> version, hashes |-> IndexOf(d)]

PublishedSet ==
    LET measured == [runtime  |-> <<Document(Published.runs)>>,
                     coverage |-> <<Document(Published.rows)>>,
                     math     |-> <<Document([version |-> Published.version, passed |-> TRUE])>>]
    IN  [a \in Artifacts |->
           CASE a = "index"    -> <<Document(IndexOf(measured))>>
             [] a = "manifest" -> <<Document(ManifestOf(Published.version, measured))>>
             [] OTHER          -> measured[a]]

-----------------------------------------------------------------------------
(* The validators; a document is a body whose hash was verified *)

(* _validate_lift2_runtime_evidence *)
RuntimeAccepted(runs) ==
    /\ Len(runs) = Cardinality(Cells)
    /\ \A i, j \in DOMAIN runs : runs[i].backtest = runs[j].backtest => i = j
    /\ \A i \in DOMAIN runs : runs[i].completed
    /\ {runs[i].cell : i \in DOMAIN runs} = Cells

(* the coverage hash of a run, the last one listed for it *)
Key(row) == <<row.cell, row.backtest>>
HashByRun(rows) ==
    [key \in {Key(row) : row \in ToSet(rows)} |->
       SelectLastInSeq(rows, LAMBDA row : Key(row) = key)]
Hashes(rows) == {<<key, rows[HashByRun(rows)[key]].coverage>> : key \in DOMAIN HashByRun(rows)}

(* _validate_lift2_coverage_evidence *)
CoverageAcceptedByRun(rows, runs) ==
    /\ \A i \in DOMAIN rows : rows[i].reconciles
    /\ {Key(row) : row \in ToSet(rows)} = {Key(run) : run \in ToSet(runs)}
CoverageAccepted(rows, runs) ==
    /\ \A i \in DOMAIN rows : rows[i].reconciles
    /\ Hashes(rows) = Hashes(runs)

(* _validate_lift2_final_evidence: the manifest is of the source contract  *)
(* and lists the three documents read, the index too                       *)
EvidenceValid(contract, manifest, runs, rows, index, math) ==
    /\ RuntimeAccepted(runs)
    /\ CoverageAccepted(rows, runs)
    /\ math.passed
    /\ manifest.version = contract
    /\ manifest.hashes = [runtime |-> runs, coverage |-> rows, math |-> math]
    /\ math.version = manifest.version
    /\ index = [runtime |-> runs, coverage |-> rows, math |-> math]

-----------------------------------------------------------------------------
EvidenceInit ==
    /\ source = Published.version
    /\ disk \in {[a \in Artifacts |-> <<>>], PublishedSet}
    /\ changes = 0
    /\ check = NoCheck
    /\ report = NoReport

(* What people do to the checkout and to the artifacts, one at a time: a   *)
(* document is written whole, or edited under the hash it has, or removed. *)
Bodies(artifact) ==
    CASE artifact = "runtime"  -> RuntimeLists
      [] artifact = "coverage" -> CoverageLists
      [] artifact = "math"     -> [version : {source}, passed : BOOLEAN]
      [] OTHER ->
           IF \E a \in {"runtime", "coverage", "math"} : disk[a] = <<>> THEN {}
           ELSE IF artifact = "index" THEN {IndexOf(disk)} ELSE {ManifestOf(source, disk)}

Change ==
    /\ changes < MaxChanges
    /\ changes' = changes + 1
    /\ \/ source' \in Versions \ {source} /\ UNCHANGED disk
       \/ \E a \in Artifacts : \E body \in Bodies(a) :
            /\ disk' = [disk EXCEPT ![a] = <<Document(body)>>]
            /\ UNCHANGED source
       \/ \E a \in Artifacts : \E body \in Bodies(a) :
            /\ disk[a] # <<>>
            /\ disk' = [disk EXCEPT ![a][1].body = body]
            /\ UNCHANGED source
       \/ \E a \in Artifacts :
            /\ disk[a] # <<>>
            /\ disk' = [disk EXCEPT ![a] = <<>>]
            /\ UNCHANGED source
    /\ UNCHANGED <<check, report>>

(* the source contract and the presence of the artifacts; a partial set    *)
(* raises                                                                  *)
Start ==
    /\ check = NoCheck
    /\ LET present == {a \in Artifacts : disk[a] # <<>>}
       IN  /\ present \in {{}, Artifacts}
           /\ check' = [phase |-> IF present = {} THEN "pending" ELSE "reading",
                        contract |-> source, read |-> <<>>]
    /\ UNCHANGED <<source, disk, changes, report>>

(* _read_and_validate_content_hash of the next artifact *)
Read ==
    LET artifact == ReadingOrder[Len(check.read) + 1]
    IN  /\ check.phase = "reading" /\ Len(check.read) < Len(ReadingOrder)
        /\ disk[artifact] # <<>> /\ disk[artifact][1].hash = disk[artifact][1].body
        /\ check' = [check EXCEPT !.read = Append(@, disk[artifact][1].body)]
        /\ UNCHANGED <<source, disk, changes, report>>

Validate ==
    /\ check.phase = "reading" /\ Len(check.read) = Len(ReadingOrder)
    /\ EvidenceValid(check.contract, check.read[1], check.read[2], check.read[3],
                     check.read[4], check.read[5])
    /\ check' = [check EXCEPT !.phase = "final"]
    /\ UNCHANGED <<source, disk, changes, report>>

(* write_manifest: the report replaces the one before in one rename *)
WriteReport ==
    /\ check.phase \in {"pending", "final"}
    /\ report' = [status |-> check.phase, contract |-> check.contract]
    /\ check' = NoCheck
    /\ UNCHANGED <<source, disk, changes>>

(* A raise, at any of these steps, or the death of the process leaves the  *)
(* report of the last check.                                               *)
Raise ==
    /\ check # NoCheck
    /\ check' = NoCheck
    /\ UNCHANGED <<source, disk, changes, report>>

EvidenceNext == Change \/ Start \/ Read \/ Validate \/ WriteReport \/ Raise

EvidenceSpec == EvidenceInit /\ [][EvidenceNext]_evidenceVars

-----------------------------------------------------------------------------
(* Evidence that passes is of one set, however the artifacts were          *)
(* rewritten, edited or removed between its reads: one completed run of    *)
(* each cell, and as its coverage nothing but what that very run reported; *)
(* index and manifest vouch for those documents and no others, and the     *)
(* certification is of the version whose source was hashed.  A row a later *)
(* row of its run contradicts is not seen (_validate_lift2_final_evidence).*)
AcceptedEvidenceIsOfOneSet ==
    check.phase = "final" =>
      LET runs == check.read[2]
          rows == check.read[3]
          Of(cell) == {i \in DOMAIN runs : runs[i].cell = cell}
      IN  /\ \A cell \in Cells : Cardinality(Of(cell)) = 1
          /\ \A i \in DOMAIN runs :
               /\ runs[i].completed
               /\ \E j \in DOMAIN rows :
                    /\ Key(rows[j]) = Key(runs[i]) /\ rows[j].coverage = runs[i].coverage
                    /\ \A k \in DOMAIN rows : k > j => Key(rows[k]) # Key(runs[i])
          /\ \A j \in DOMAIN rows : rows[j].reconciles /\ rows[j].cell \in Cells
          /\ check.read[4] = check.read[1].hashes
          /\ check.read[5].version = check.contract
=============================================================================
