------------------------- MODULE TransactionDetails -------------------------
(***************************************************************************)
(* transactionDetails of crates/zcash-ffi-node/src/lib.rs: the fees of some  *)
(* transactions, and whom they pay, read from the whole of each.  The        *)
(* transactions are fetched a few at a time (crates/zcash-sync/src/          *)
(* client.rs), priced with the values the caller has for what they spend     *)
(* (crates/zcash-crypto/src/fee.rs) and decrypted with the keys of the       *)
(* account (payee.rs, decrypt.rs).                                           *)
(***************************************************************************)
EXTENDS Integers, Sequences, FiniteSets, SequencesExt, Functions

CONSTANTS
  Txs,      \* the transactions the server has, by txid
  Calls,    \* the calls of transactionDetails to consider
  Depth,    \* DETAILS_PIPELINE_DEPTH
  MaxMoney, \* the largest amount
  Unknown   \* no fee: null

\* A transaction: what it spends of the transparent outputs, with their values (which
\* are not in it), what it pays to transparent outputs, what each bundle adds to the
\* transparent pool, and its shielded outputs.
ShieldedPools == {"orchard", "ironwood", "sapling"}
Output == [by : {"us", "others"}, to : {"external", "internal", "others"}, address : STRING]
Tx == [parses : BOOLEAN, spends : Seq([outpoint : STRING, value : Nat]), pays : Nat,
       balance : [ShieldedPools -> Int], outs : [ShieldedPools -> Seq(Output)]]

\* A call: requests, each with the values of some outpoints as strings of digits.
Request == [txid : STRING, prevouts : SUBSET [outpoint : STRING, value : Int]]
Ufvks == {"ours", "invalid", "none"}
Call == [requests : Seq(Request), network : {"known", "unknown"}, ufvk : Ufvks]

\* null is no amount; what is read from the server and from the caller is well-formed.
ASSUME DetailsAssumption ==
  /\ Depth \in Nat \ {0} /\ MaxMoney \in Nat /\ Unknown \notin Int
  /\ Calls \subseteq Call
  /\ \A txid \in DOMAIN Txs : Txs[txid] \in Tx

VARIABLES
  call,     \* the call
  pulled,   \* how many requests have been started
  inFlight, \* the positions of those that are not answered
  failed,   \* those whose fetch failed
  results,  \* what came of the others, in the order they completed
  answer,   \* what is returned
  status    \* "called", "fetching", "ok" or "error"

detailsVars == <<call, pulled, inFlight, failed, results, answer, status>>

\* The elements of a finite set of numbers, in their order.
Ascending(S) ==
  CHOOSE s \in [1 .. Cardinality(S) -> S] : \A i, j \in DOMAIN s : i < j => s[i] < s[j]

Sum(values) == FoldSeq(LAMBDA v, sum : v + sum, 0, values)

-----------------------------------------------------------------------------
(* transaction_fee *)

Known(request, outpoint) == \E p \in request.prevouts : p.outpoint = outpoint
ValueOf(request, outpoint) == (CHOOSE p \in request.prevouts : p.outpoint = outpoint).value

AllKnown(tx, request) == \A i \in DOMAIN tx.spends : Known(request, tx.spends[i].outpoint)

\* Values beyond the supply, met before one that is missing.
BadValue(tx, request) ==
  \E i \in DOMAIN tx.spends :
    /\ \A j \in 1 .. i : Known(request, tx.spends[j].outpoint)
    /\ ValueOf(request, tx.spends[i].outpoint) > MaxMoney

\* fee_paid: what the pools and the inputs give less what the outputs take.
FeePaid(tx, request) ==
  Sum([i \in DOMAIN tx.spends |-> ValueOf(request, tx.spends[i].outpoint)]) - tx.pays
    + tx.balance["sapling"] + tx.balance["orchard"] + tx.balance["ironwood"]

CanPrice(tx, request) ==
  /\ ~BadValue(tx, request)
  /\ AllKnown(tx, request) => FeePaid(tx, request) >= 0
TransactionFee(tx, request) == IF AllKnown(tx, request) THEN FeePaid(tx, request) ELSE Unknown

-----------------------------------------------------------------------------
(* outgoing_payees *)

\* decrypt_transaction: by its own address first, else as one that we made.
TransferType(out) ==
  CASE out.to = "external" -> "incoming"
    [] out.to = "internal" -> "internal"
    [] out.to = "others" /\ out.by = "us" -> "outgoing"
    [] OTHER -> "none"

PayeesMade(tx) ==                                                  \* mutant
  LET made(pool) == SelectSeq(tx.outs[pool], LAMBDA out : out.by = "us")
      all == made("orchard") \o made("ironwood") \o made("sapling")
  IN [i \in DOMAIN all |-> all[i].address]
Outgoing(tx, pool) ==
  LET outs == tx.outs[pool]
      ours == Ascending({i \in DOMAIN outs : TransferType(outs[i]) = "outgoing"})
  IN [k \in DOMAIN ours |-> outs[ours[k]].address]
OutgoingPayees(tx) ==
  Outgoing(tx, "orchard") \o Outgoing(tx, "ironwood") \o Outgoing(tx, "sapling")

-----------------------------------------------------------------------------
DetailsInit ==
  /\ call \in Calls
  /\ pulled = 0 /\ inFlight = {} /\ failed = {}
  /\ results = <<>> /\ answer = <<>> /\ status = "called"

\* The amounts and the network are read before anything is asked for.
Parses(c) ==
  /\ c.network = "known"
  /\ \A i \in DOMAIN c.requests : \A p \in c.requests[i].prevouts : p.value >= 0

Reject ==
  /\ status = "called" /\ ~Parses(call)
  /\ status' = "error"
  /\ UNCHANGED <<call, pulled, inFlight, failed, results, answer>>

\* One connection for all requests.
Connect ==
  /\ status = "called" /\ Parses(call)
  /\ status' \in {"fetching", "error"}
  /\ UNCHANGED <<call, pulled, inFlight, failed, results, answer>>

\* buffer_unordered: a request is sent as soon as there is room.
Pull ==
  /\ status = "fetching" /\ pulled < Len(call.requests) /\ Cardinality(inFlight) < Depth
  /\ pulled' = pulled + 1
  /\ inFlight' = inFlight \cup {pulled'}
  /\ UNCHANGED <<call, failed, results, answer, status>>

Result(position, fee, payees) ==
  [position |-> position, txid |-> call.requests[position].txid, fee |-> fee, payees |-> payees]

FetchAndReadAll(position) ==                                       \* mutant
  LET request == call.requests[position]
      tx == Txs[request.txid]
  IN IF tx.parses /\ CanPrice(tx, request) /\ call.ufvk # "invalid"
     THEN Result(position, TransactionFee(tx, request),
                 IF call.ufvk = "ours" THEN OutgoingPayees(tx) ELSE <<>>)
     ELSE Result(position, Unknown, <<>>)
\* fetch_and_read: whatever fails leaves the details of this one unknown; but not to
\* decrypt is no failure.
FetchAndRead(position) ==
  LET request == call.requests[position]
      tx == Txs[request.txid]
  IN IF tx.parses /\ CanPrice(tx, request)
     THEN Result(position, TransactionFee(tx, request),
                 IF call.ufvk = "ours" THEN OutgoingPayees(tx) ELSE <<>>)
     ELSE Result(position, Unknown, <<>>)

FetchSucceeds(position) ==
  /\ call.requests[position].txid \in DOMAIN Txs
  /\ results' = Append(results, FetchAndRead(position))
  /\ UNCHANGED failed
KeepsSlot(position) ==                                             \* mutant
  /\ failed' = failed \cup {position}
  /\ UNCHANGED results
FetchFails(position) ==
  /\ failed' = failed \cup {position}
  /\ results' = Append(results, Result(position, Unknown, <<>>))

Complete ==
  /\ \E position \in inFlight :
       /\ FetchSucceeds(position) \/ FetchFails(position)
       /\ inFlight' = inFlight \ {position}
  /\ UNCHANGED <<call, pulled, answer, status>>

AsCompleted == {results}                                           \* mutant
\* sort_by_key: in the order of their positions.
InRequestOrder ==
  {[i \in DOMAIN order |-> results[order[i]]] :
     order \in {o \in SetToSeqs(DOMAIN results) :
       \A i, j \in DOMAIN o : i < j => results[o[i]].position <= results[o[j]].position}}

Finish ==
  /\ status = "fetching" /\ Len(results) = Len(call.requests)
  /\ answer' \in InRequestOrder
  /\ status' = "ok"
  /\ UNCHANGED <<call, pulled, inFlight, failed, results>>

DetailsNext == Reject \/ Connect \/ Pull \/ Complete \/ Finish
\* Each request has a timeout, so it is answered or fails.
DetailsSpec == DetailsInit /\ [][DetailsNext]_detailsVars /\ WF_detailsVars(DetailsNext)

-----------------------------------------------------------------------------
(* Properties *)

\* What the transaction really paid: nothing that goes into or out of a shielded pool
\* is taken for a fee, nor anything missed.
TrueFee(txid) ==
  LET tx == Txs[txid]
      values == [i \in DOMAIN tx.spends |-> tx.spends[i].value]
  IN Sum(values) + Sum([i \in 1 .. 3 |-> tx.balance[<<"orchard", "ironwood", "sapling">>[i]]]) - tx.pays

\* A mined transaction spends no more than there is and pays its fee itself.
ASSUME MinedAssumption ==
  \A txid \in DOMAIN Txs : Txs[txid].parses =>
    /\ TrueFee(txid) >= 0
    /\ \A i \in DOMAIN Txs[txid].spends : Txs[txid].spends[i].value <= MaxMoney

Honest(request) ==
  \A i \in DOMAIN Txs[request.txid].spends : LET s == Txs[request.txid].spends[i] IN
    Known(request, s.outpoint) => ValueOf(request, s.outpoint) = s.value

\* In whatever order the fetches complete, each request is answered in its place, with
\* the fee of its own transaction or with none at all.
FeeExactOrUnknown ==
  status = "ok" =>
    /\ Len(answer) = Len(call.requests)
    /\ \A i \in DOMAIN answer : LET request == call.requests[i] IN
         /\ answer[i].txid = request.txid
         /\ answer[i].fee # Unknown /\ Honest(request) => answer[i].fee = TrueFee(request.txid)

\* The payees of a transaction are those that we pay: neither ourselves, as change
\* does, nor whom others pay, nor any of another transaction of the call.
PayeesAreOthers ==
  \A i \in DOMAIN answer : \A k \in DOMAIN answer[i].payees :
    \E pool \in ShieldedPools : \E out \in Range(Txs[answer[i].txid].outs[pool]) :
      out.by = "us" /\ out.to = "others" /\ out.address = answer[i].payees[k]

\* Only what failed is unknown: a transaction that was fetched, and whose inputs have
\* their values, is priced, and has all its payees if the key is given, whatever
\* became of the other requests of the call, even of the same transaction.
FailuresIsolated ==
  \A i \in DOMAIN answer \ failed : LET request == call.requests[i]
                                         tx == Txs[request.txid] IN
    tx.parses /\ Honest(request) =>
      /\ AllKnown(tx, request) => answer[i].fee = TrueFee(request.txid)
      /\ call.ufvk = "ours" => \A pool \in ShieldedPools : \A out \in Range(tx.outs[pool]) :
           out.by = "us" /\ out.to = "others" => Contains(answer[i].payees, out.address)

\* Every call ends, whichever of its fetches fail.
CallEnds == <>(status \in {"ok", "error"})
=============================================================================
