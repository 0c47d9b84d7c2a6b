------------------------------- MODULE UdtCells -------------------------------
(***************************************************************************)
(* The cells of one SUDT and one XUDT, and the commands that issue,        *)
(* transfer, destroy and count them (src/src/sdk/ckb.ts, udt commands).    *)
(* A command reads the live cells, builds a transaction and sends it some  *)
(* time later; other commands do the same meanwhile.  Capacity, fees and   *)
(* signatures are left out; MaxAmount stands for 2^128 - 1.                *)
(***************************************************************************)
EXTENDS Integers, Sequences, FiniteSets, SequencesExt, FiniteSetsExt

CONSTANTS
  Owners, Issuer,
  Commands,       \* processes that run a command
  MaxAmount,
  MaxInputCells,  \* DEFAULT_UDT_DESTROY_MAX_INPUT_CELLS
  MaxScanCells,   \* DEFAULT_UDT_SCAN_MAX_CELLS
  InitialCells,   \* the cells that earlier commands and other programs left
  MaxCommands     \* bound: commands that get as far as a transaction
ASSUME IssuerAssumption == Issuer \in Owners
ASSUME LimitsAssumption == MaxAmount \in Nat /\ MaxScanCells \in Nat

VARIABLES
  udtCells,  \* every cell, in the order of creation
  sending,   \* the transaction of each command, between its reads and the send
  ledger,    \* history: what the commands that succeeded add up to
  commands   \* bound: see MaxCommands

udtVars == <<udtCells, sending, ledger, commands>>

Kinds == {"sudt", "xudt"}
Amounts == 1 .. MaxAmount
Corrupted == -1  \* its data is no amount
NoTx == [kind |-> "none"]
Cell(kind, owner, amount) == [kind |-> kind, owner |-> owner, amount |-> amount]
Spent == [kind |-> "none", owner |-> Issuer, amount |-> 0]
ASSUME CellsAssumption ==
  InitialCells \subseteq Seq([kind : Kinds, owner : Owners, amount : Amounts \cup {Corrupted}])

-----------------------------------------------------------------------------
(* findCellsByLock: cells by their number, which is the order of creation.  *)
FindCells(kind, owner) ==
  {i \in DOMAIN udtCells : udtCells[i].kind = kind /\ udtCells[i].owner = owner}
Readable(i) == udtCells[i].amount # Corrupted
Sum(cells) == MapThenSumSet(LAMBDA i : udtCells[i].amount, {i \in cells : Readable(i)})
Before(i, cells) == {j \in cells : j < i}
First(n, cells) == {i \in cells : Cardinality(Before(i, cells)) < n}

UdtBalance(kind, owner) == Sum(First(MaxScanCells, FindCells(kind, owner)))
(* Each kind has its own budget.                                            *)
DetectUdtBalances(owner) == [kind \in Kinds |-> UdtBalance(kind, owner)]

(* completeInputsByUdt of the library: cells with an amount, until they hold *)
(* what is sent, and perhaps one more.                                      *)
InputsByUdt(kind, owner, amount) ==
  LET readable == {i \in FindCells(kind, owner) : Readable(i)}
      enough == {n \in 1 .. Cardinality(readable) : Sum(First(n, readable)) >= amount}
  IN {First(n, readable) : n \in {m \in enough : m <= Min(enough) + 1}}

UdtInit ==
  /\ udtCells \in InitialCells
  /\ sending = [c \in Commands |-> NoTx]
  /\ ledger = [k \in Kinds |-> [o \in Owners |-> Sum(FindCells(k, o))]]
  /\ commands = 0

(* A command that throws sends nothing: for every owner, amount and kind it *)
(* is as if it had not been run.                                            *)
Sends(c, tx) ==
  /\ sending[c] = NoTx
  /\ commands < MaxCommands /\ commands' = commands + 1
  /\ sending' = [sending EXCEPT ![c] = tx]
  /\ UNCHANGED <<udtCells, ledger>>

(* Only the issuer's own cells pay: an XUDT may be named by its arguments,  *)
(* but the chain refuses the issue of anybody else.                         *)
UdtIssue(c) ==
  \E kind \in Kinds, from, to \in Owners, amount \in Amounts :
    /\ kind = "sudt" => from = Issuer
    /\ Sends(c, [kind |-> kind, from |-> from, to |-> to, amount |-> amount,
                 inputs |-> {}, outputs |-> <<[owner |-> to, amount |-> amount]>>])

(* Mutant: the change is forgotten; the scripts take it for a burn.         *)
TransferOutputsOnly(from, to, amount, change) == <<[owner |-> to, amount |-> amount]>>
TransferOutputs(from, to, amount, change) ==
  <<[owner |-> to, amount |-> amount]>>
    \o IF change > 0 THEN <<[owner |-> from, amount |-> change]>> ELSE <<>>

(* A change of more than 128 bits does not fit numToBytes, which throws.    *)
UdtTransfer(c) ==
  \E kind \in Kinds, from, to \in Owners, amount \in Amounts :
    \E inputs \in InputsByUdt(kind, from, amount) :
    LET change == Sum(inputs) - amount
    IN /\ change <= MaxAmount
       /\ Sends(c, [kind |-> kind, from |-> from, to |-> to, amount |-> amount,
                    inputs |-> inputs,
                    outputs |-> TransferOutputs(from, to, amount, change)])

(* A cell after the last one that fits is too many, whatever it holds.      *)
TooManyCells(cells) ==
  \E i \in cells : Cardinality({j \in Before(i, cells) : Readable(j)}) >= MaxInputCells

UdtDestroy(c) ==
  \E kind \in Kinds, from \in Owners, amount \in Amounts :
    LET cells == FindCells(kind, from)
        inputs == {i \in cells : Readable(i)}
        remaining == Sum(inputs) - amount
    IN /\ ~TooManyCells(cells)
       /\ remaining \in Amounts
       /\ Sends(c, [kind |-> kind, from |-> from, to |-> from, amount |-> -amount,
                    inputs |-> inputs,
                    outputs |-> <<[owner |-> from, amount |-> remaining]>>])

-----------------------------------------------------------------------------
(* The chain: the inputs are live, and unless the issuer signs, what comes  *)
(* out is covered by what goes in, a sum of 128 bits.                       *)
OutputSum(tx) == FoldSeq(LAMBDA o, n : o.amount + n, 0, tx.outputs)
Accepts(tx) ==
  /\ \A i \in tx.inputs : udtCells[i] # Spent
  /\ tx.from # Issuer => Sum(tx.inputs) <= MaxAmount /\ OutputSum(tx) <= Sum(tx.inputs)

(* What the command promised its user.                                      *)
Booked(tx) ==
  [ledger EXCEPT ![tx.kind] =
     [o \in Owners |->
        @[o] + (IF o = tx.to THEN tx.amount ELSE 0)
             - (IF o = tx.from /\ tx.inputs # {} /\ tx.amount > 0 THEN tx.amount ELSE 0)]]

SendTransaction(c) ==
  LET tx == sending[c]
  IN /\ tx # NoTx /\ Accepts(tx)
     /\ udtCells' =
          [i \in DOMAIN udtCells |-> IF i \in tx.inputs THEN Spent ELSE udtCells[i]]
            \o [n \in DOMAIN tx.outputs |->
                  Cell(tx.kind, tx.outputs[n].owner, tx.outputs[n].amount)]
     /\ ledger' = Booked(tx)
     /\ sending' = [sending EXCEPT ![c] = NoTx]
     /\ UNCHANGED commands

(* Refused by the chain, an error on the way, or killed.                    *)
SendFails(c) ==
  /\ sending[c] # NoTx
  /\ sending' = [sending EXCEPT ![c] = NoTx]
  /\ UNCHANGED <<udtCells, ledger, commands>>

UdtNext ==
  \E c \in Commands :
    \/ UdtIssue(c) \/ UdtTransfer(c) \/ UdtDestroy(c)
    \/ SendTransaction(c) \/ SendFails(c)

-----------------------------------------------------------------------------
(* Whatever commands cross, every owner holds what the successful ones add  *)
(* up to: a transfer returns the change, a destroy burns what was asked and *)
(* no more, and no cell is spent twice.  The balance commands report it as  *)
(* long as the scan of that kind was not cut off ("a shared counter would   *)
(* silently drop every XUDT balance", ckb.ts:284).                          *)
HoldingsTrue ==
  \A kind \in Kinds, o \in Owners :
    Sum(FindCells(kind, o)) = ledger[kind][o]
BalancesTrue ==
  \A kind \in Kinds, o \in Owners :
    Cardinality(FindCells(kind, o)) <= MaxScanCells =>
      DetectUdtBalances(o)[kind] = ledger[kind][o]
TokensConserved == HoldingsTrue /\ BalancesTrue
=============================================================================
