----------------------------- MODULE RunLedger -----------------------------
(***************************************************************************)
(* What the Run store promises a reader of its file, whatever crashes and  *)
(* failed writes happen in between: a Run, once known, stays known; it is  *)
(* owned by at most one lane, for ever; it is executed at most once and    *)
(* only by then owned; and once settled it never changes.                  *)
(***************************************************************************)
EXTENDS Naturals

CONSTANTS RunId, Lane

VARIABLE ledger

Entry == [known : BOOLEAN,
          owners : {{}} \cup {{l} : l \in Lane},
          settled : BOOLEAN,
          executions : {0, 1}]

Blank == [known |-> FALSE, owners |-> {}, settled |-> FALSE, executions |-> 0]

LedgerInit == ledger = [r \in RunId |-> Blank]

\* What one write of the whole file may do to one entry.
Written(old, new) ==
    /\ old.known => new.known
    /\ new.owners # {} \/ new.settled => new.known
    /\ old.owners # {} => new.owners = old.owners
    /\ old.settled => new = old
    /\ new.executions = old.executions

\* A write concerns every Run at once: it carries what earlier failed writes
\* left behind in memory.
Write == /\ ledger' \in [RunId -> Entry]
         /\ \A r \in RunId : Written(ledger[r], ledger'[r])

\* An owned, unsettled Run is executed for the first and only time.
Executable(entry) == entry.owners # {} /\ ~entry.settled /\ entry.executions = 0

Execute(r) ==
    /\ Executable(ledger[r])
    /\ ledger' = [ledger EXCEPT ![r].executions = 1]

\* The milestone that says an execution begins may be written in the same step.
WriteAndExecute(r) ==
    /\ Executable(ledger[r])
    /\ ledger' \in [RunId -> Entry]
    /\ \A q \in RunId \ {r} : Written(ledger[q], ledger'[q])
    /\ ledger'[r].executions = 1
    /\ Written(ledger[r], [ledger'[r] EXCEPT !.executions = 0])

LedgerNext == Write \/ \E r \in RunId : Execute(r) \/ WriteAndExecute(r)

LedgerSpec == LedgerInit /\ [][LedgerNext]_ledger
=============================================================================
