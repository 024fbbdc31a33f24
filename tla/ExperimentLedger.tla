--------------------------- MODULE ExperimentLedger ---------------------------
(***************************************************************************)
(* The hash-chained ledger of ledger/experiment_ledger.py: a JSON-lines    *)
(* file that any number of processes open by path.  There is no lock: an   *)
(* operation reads and verifies the file, builds its row, reads the file   *)
(* again, writes the whole new content to a temporary file and renames it  *)
(* over the ledger.  A process may die, or the filesystem fail, before     *)
(* any of these steps.                                                     *)
(*                                                                         *)
(* SHA-256 is abstracted to an injective function: the hash of a row is    *)
(* the sequence of the contents its chain vouches for.                     *)
(***************************************************************************)
EXTENDS Integers, Sequences

CONSTANTS
    Writers,      \* processes holding an ExperimentLedger of this path
    Experiments,  \* experiment ids
    Times,        \* registration and decision times
    Texts,        \* texts of names and reasons: "plain", or "separator" for
                  \* one with a line separator JSON leaves unescaped (U+2028)
    MaxRows       \* bound: rows staged for the file

ASSUME LedgerAssumption ==
    /\ Times \subseteq Nat
    /\ Texts \subseteq {"plain", "separator"}
    /\ MaxRows \in Nat

NoHash == <<>>

VARIABLES
    file,          \* the rows of the ledger file
    pending,       \* per writer, the operation it is in
    acknowledged,  \* history: rows whose hash was returned to the caller
    overlapped     \* history: two operations were once in flight together

vars == <<file, pending, acknowledged, overlapped>>

(* An operation in flight: its row, the new content of the file from the   *)
(* moment it is staged, and how far it is: idle, checked, staged or        *)
(* replaced.  A row is a content, [kind, experiment, time, text], and the  *)
(* hash of the row before it.                                              *)
NoRow  == [content |-> "none", prev |-> NoHash]
Idle   == [phase |-> "idle", row |-> NoRow, content |-> <<>>]

-----------------------------------------------------------------------------
(* Reading *)

RecordHash(row) == Append(row.prev, row.content)

LastHash(rows) == IF rows = <<>> THEN NoHash ELSE RecordHash(rows[Len(rows)])

(* _verified_rows does not raise.  splitlines() cuts a row with a line     *)
(* separator in two, and neither half is JSON.                             *)
Verified(rows) ==
    \A i \in 1..Len(rows) :
        /\ rows[i].content.text # "separator"
        /\ rows[i].prev = IF i = 1 THEN NoHash ELSE RecordHash(rows[i - 1])

Registrations(rows, experiment) ==
    {i \in 1..Len(rows) : rows[i].content.kind = "registration"
                          /\ rows[i].content.experiment = experiment}

(* _registration_time: of the first registration row *)
RegisteredBy(rows, experiment, time) ==
    \E i \in Registrations(rows, experiment) :
        /\ rows[i].content.time <= time
        /\ \A j \in Registrations(rows, experiment) : i <= j

-----------------------------------------------------------------------------
(* The steps of pre_register and append_decision *)

Init ==
    /\ file = <<>>
    /\ pending = [w \in Writers |-> Idle]
    /\ acknowledged = {}
    /\ overlapped = FALSE

Begin(w, content) ==
    /\ pending[w] = Idle
    /\ pending' = [pending EXCEPT ![w] =
                     [phase |-> "checked", content |-> <<>>,
                      row |-> [content |-> content, prev |-> LastHash(file)]]]
    /\ overlapped' = (overlapped \/ \E v \in Writers \ {w} : pending[v] # Idle)
    /\ UNCHANGED <<file, acknowledged>>

PreRegister(w, experiment, time, text) ==
    /\ Verified(file)
    /\ Registrations(file, experiment) = {}
    /\ Begin(w, [kind |-> "registration", experiment |-> experiment,
                 time |-> time, text |-> text])

AppendDecision(w, experiment, time, text) ==
    /\ Verified(file)
    /\ RegisteredBy(file, experiment, time)
    /\ Begin(w, [kind |-> "decision", experiment |-> experiment, time |-> time, text |-> text])

(* _atomic_append up to fsync: the file is read again *)
StageRelinked(w) ==
    /\ pending[w].phase = "checked"
    /\ Len(file) < MaxRows
    /\ pending' = [pending EXCEPT ![w].phase = "staged",
                                  ![w].content =
                                     Append(file, [pending[w].row EXCEPT !.prev = LastHash(file)])]
    /\ UNCHANGED <<file, acknowledged, overlapped>>
StageAlone(w) ==
    /\ pending[w].phase = "checked"
    /\ pending' = [pending EXCEPT ![w].phase = "staged", ![w].content = <<pending[w].row>>]
    /\ UNCHANGED <<file, acknowledged, overlapped>>
Stage(w) ==
    /\ pending[w].phase = "checked"
    /\ Len(file) < MaxRows
    /\ pending' = [pending EXCEPT ![w].phase = "staged",
                                  ![w].content = Append(file, pending[w].row)]
    /\ UNCHANGED <<file, acknowledged, overlapped>>

(* os.replace *)
Replace(w) ==
    /\ pending[w].phase = "staged"
    /\ file' = pending[w].content
    /\ pending' = [pending EXCEPT ![w].phase = "replaced"]
    /\ UNCHANGED <<acknowledged, overlapped>>

(* the row's hash reaches the caller *)
Return(w) ==
    /\ pending[w].phase = "replaced"
    /\ pending' = [pending EXCEPT ![w] = Idle]
    /\ acknowledged' = acknowledged \cup {pending[w].row}
    /\ UNCHANGED <<file, overlapped>>

(* The process dies, or an OSError leaves the ledger as it is. *)
Abort(w) ==
    /\ pending[w] # Idle
    /\ pending' = [pending EXCEPT ![w] = Idle]
    /\ UNCHANGED <<file, acknowledged, overlapped>>

Next ==
    \E w \in Writers :
        \/ \E e \in Experiments, time \in Times, text \in Texts :
              PreRegister(w, e, time, text) \/ AppendDecision(w, e, time, text)
        \/ Stage(w) \/ Replace(w) \/ Return(w) \/ Abort(w)

Spec == Init /\ [][Next]_vars

-----------------------------------------------------------------------------
(* Properties *)

(* As long as no two operations overlap, whatever crashes in the middle,   *)
(* the file verifies and a row whose hash was returned is in it for good.  *)
ChainIntact ==
    ~ overlapped =>
        /\ Verified(file)
        /\ \A row \in acknowledged : \E i \in 1..Len(file) : file[i] = row

(* As long as no two operations overlap, the file only grows, by one row   *)
(* at its end.                                                             *)
AppendOnly ==
    [][~ overlapped' => /\ Len(file') \in Len(file) .. (Len(file) + 1)
                        /\ SubSeq(file', 1, Len(file)) = file]_vars

(* A file that verifies is a legal history even when operations did        *)
(* overlap: no experiment is registered twice, and every decision follows  *)
(* a registration of its experiment that is no later.  A duplicate that    *)
(* slips between another operation's check and its write breaks the chain, *)
(* so it cannot go unnoticed (a row lost to a later rename can).           *)
VerifiedIsLegal ==
    Verified(file) =>
        \A i \in 1..Len(file) :
            LET before == SubSeq(file, 1, i - 1)
                c      == file[i].content
            IN  IF c.kind = "registration" THEN Registrations(before, c.experiment) = {}
                ELSE RegisteredBy(before, c.experiment, c.time)
=============================================================================
