--------------------------------- MODULE Feed ---------------------------------
(***************************************************************************)
(* The order book of one symbol as WSManager keeps it                      *)
(* (src/src/ws_manager/manager.py) with SnapshotFetcher (snapshot.py), the *)
(* Binance mode of SequenceValidator (data_layer/seq.py), TokenBucket      *)
(* (data_layer/token_bucket.py) and L2Buffer (data_layer/l2_buffer.py).    *)
(*                                                                         *)
(* The exchange numbers its changes 1, 2, ...; a message covers a range of *)
(* numbers and carries their diffs.  The connection delivers in order but  *)
(* may lose messages.  Tasks are the coroutines that call handle_message   *)
(* and on_snapshot; one gives way only in the token bucket and in the call *)
(* of fetch.                                                               *)
(*                                                                         *)
(* The REST request of fetch is a stub: the reply has no levels, and its   *)
(* key is lastUpdateId where L2Buffer.on_snapshot reads seq.  So a         *)
(* snapshot is an empty book numbered 0.  What a real reply would show is  *)
(* not in the model.  The branch of a fetch that fails is there too        *)
(* (FetchFails), although the stub only takes it under a time limit of 0:  *)
(* fetch_and_apply returns False, and both callers ignore it.              *)
(*                                                                         *)
(* connect gives the validator and the manager the same epoch in one step, *)
(* so validate never sees another; nothing of the manager calls set_last_u *)
(* or reset.  A batch with MAX_BUFFER new levels is left out: apply_batch  *)
(* would trim an empty ladder for ever, holding its lock.                  *)
(***************************************************************************)
EXTENDS Integers, FiniteSets, SequencesExt

CONSTANTS
    Tasks,
    Prices,
    MaxBuffer,     \* MAX_BUFFER
    TrimBlock,     \* TRIM_BLOCK
    Burst,         \* BURST of the token bucket
    Tapes,         \* what the changes of the exchange may be
    MaxConnects,   \* bound of the epochs
    MaxSnapshots,  \* bound of the snapshots applied
    MaxQueue,      \* bound of the messages queued before synchronisation
    FetchFails,    \* may fetch time out or fail?
    None

Sides  == {"bid", "ask"}
Diffs  == [side : Sides, price : Prices, qty : Nat]
Levels == [price : Prices, qty : Nat \ {0}]

ASSUME FeedAssumption ==
    /\ Prices \subseteq Nat /\ IsFiniteSet(Prices)
    /\ {MaxBuffer, TrimBlock, Burst, MaxConnects, MaxSnapshots, MaxQueue} \subseteq Nat
    /\ MaxBuffer > 0 /\ TrimBlock > 0 /\ Burst > 0
    /\ Tapes \subseteq Seq(Seq(Diffs))
    /\ FetchFails \in BOOLEAN

VARIABLES
    tape,       \* the exchange: the diffs of each change
    delivered,  \* number of the last change the connection has delivered
    link,       \* symbol in _ws_tasks: "none", "open" or "closing"
    epoch,      \* _current_epoch, 0 before the first connect
    synced,     \* _synced
    lastU,      \* SeqState.last_u
    book,       \* the L2Book, None if there is none
    pc,         \* what each task awaits: "idle", "token" or "reply"
    tokens,     \* whole tokens of the bucket
    since       \* history: changes applied since the snapshot, and the last batch

wireVars == <<tape, delivered>>
connVars == <<link, epoch, synced, lastU>>
bookVars == <<book, since>>
taskVars == <<pc, tokens>>
vars == <<wireVars, connVars, bookVars, taskVars>>

Numbers == 1 .. Len(tape)

-----------------------------------------------------------------------------
(* L2Buffer.  A ladder is the levels up to bids_len or asks_len, best      *)
(* first.                                                                  *)

Better(side, p, q) == IF side = "bid" THEN p > q ELSE p < q

\* np.searchsorted, counting from 1.
Place(ladder, side, price) ==
    1 + Cardinality({i \in DOMAIN ladder : Better(side, ladder[i].price, price)})

HasLevel(ladder, side, price) ==
    LET i == Place(ladder, side, price)
    IN  i <= Len(ladder) /\ ladder[i].price = price

\* The first loop of apply_batch counts the levels a batch adds.
NewLevels(ladder, side, diffs) ==
    Cardinality({i \in DOMAIN diffs :
        /\ diffs[i].side = side /\ diffs[i].qty # 0
        /\ ~HasLevel(ladder, side, diffs[i].price)})

\* Mutant of Trimmed: the best levels go.
Trimmed_Front(ladder, new) ==
    LET room == Max({0, MaxBuffer - 1 - new})
    IN  IF Len(ladder) <= room THEN ladder
        ELSE SubSeq(ladder, Len(ladder) - room + 1, Len(ladder))

\* trim: the worst levels go, a block at a time, until the new ones fit.
Trimmed(ladder, new) ==
    LET After(blocks) == Max({0, Len(ladder) - blocks * TrimBlock})
        fits == {n \in 0 .. Len(ladder) : After(n) + new < MaxBuffer}
    IN  SubSeq(ladder, 1, After(Min(fits)))

\* One diff of the second loop.  Shifting a full array raises: the source of the
\* slice assignment is one longer than what is left of the target.
Overflows(ladder, side, diff) ==
    /\ diff.qty # 0 /\ ~HasLevel(ladder, side, diff.price)
    /\ Len(ladder) = MaxBuffer /\ Place(ladder, side, diff.price) < MaxBuffer

\* A level behind a full ladder is ignored; one for the last place of it takes
\* the place of the worst, as a source of one level fits any target, the empty
\* one too.
Put(ladder, side, diff) ==
    LET i == Place(ladder, side, diff.price)
        level == [price |-> diff.price, qty |-> diff.qty]
    IN  IF HasLevel(ladder, side, diff.price)
        THEN IF diff.qty = 0 THEN RemoveAt(ladder, i)
             ELSE [ladder EXCEPT ![i] = level]
        ELSE IF diff.qty = 0 THEN ladder
             ELSE SubSeq(InsertAt(ladder, i, level), 1, Min({Len(ladder) + 1, MaxBuffer}))

\* The ladders after a diff; a batch that has raised goes no further.
PutNext(acc, diff) ==
    IF acc.raised THEN acc
    ELSE IF Overflows(acc.ladders[diff.side], diff.side, diff)
    THEN [acc EXCEPT !.raised = TRUE]
    ELSE [acc EXCEPT !.ladders[diff.side] = Put(@, diff.side, diff)]

Rooms(ladders, diffs) ==
    [side \in Sides |-> Trimmed(ladders[side], NewLevels(ladders[side], side, diffs))]

Applied(b, diffs) ==
    LET rooms == Rooms(b.ladders, diffs)
        cut   == {side \in Sides : Len(rooms[side]) < Len(b.ladders[side])}
        end   == FoldLeft(PutNext, [ladders |-> rooms, raised |-> FALSE], diffs)
    IN  [b EXCEPT !.ladders = end.ladders, !.trims = @ \/ cut # {}]

Fits(b, diffs) ==
    \A side \in Sides : NewLevels(b.ladders[side], side, diffs) < MaxBuffer

-----------------------------------------------------------------------------
(* The exchange                                                            *)

DiffsOf(first, final) == FlattenSeq(SubSeq(tape, first, final))

-----------------------------------------------------------------------------
NewBook == [ladders |-> [side \in Sides |-> <<>>], epoch |-> 0,
            expected |-> None, queue |-> <<>>, trims |-> FALSE]

Init ==
    /\ tape \in Tapes /\ delivered = 0
    /\ link = "none" /\ epoch = 0 /\ synced = FALSE /\ lastU = 0
    /\ book \in {None, NewBook} /\ since = None
    /\ pc = [t \in Tasks |-> "idle"] /\ tokens = Burst

\* connect: a new epoch, for the manager and for the validator; the book keeps
\* its own.
Connect ==
    /\ link = "none" /\ epoch < MaxConnects
    /\ link' = "open" /\ epoch' = epoch + 1
    /\ synced' = FALSE /\ lastU' = 0
    /\ book' = IF book = None THEN None ELSE [book EXCEPT !.queue = <<>>]
    /\ UNCHANGED <<wireVars, since, taskVars>>

\* disconnect cancels the task; its done callback takes it out of _ws_tasks.
Disconnect ==
    /\ link = "open"
    /\ link' = "closing"
    /\ UNCHANGED <<wireVars, epoch, synced, lastU, bookVars, taskVars>>

LinkDone ==
    /\ link = "closing"
    /\ link' = "none"
    /\ UNCHANGED <<wireVars, epoch, synced, lastU, bookVars, taskVars>>

-----------------------------------------------------------------------------
(* TokenBucket and SnapshotFetcher                                         *)

Refill ==
    /\ tokens < Burst
    /\ tokens' = tokens + 1
    /\ UNCHANGED <<wireVars, connVars, bookVars, pc>>

\* fetch begins by asking for a token; without one it sleeps and asks again.
Ask(t) ==
    /\ pc[t] = "idle"
    /\ \/ tokens > 0 /\ tokens' = tokens - 1 /\ pc' = [pc EXCEPT ![t] = "reply"]
       \/ tokens = 0 /\ UNCHANGED tokens /\ pc' = [pc EXCEPT ![t] = "token"]

Retry(t) ==
    /\ pc[t] = "token" /\ tokens > 0
    /\ tokens' = tokens - 1 /\ pc' = [pc EXCEPT ![t] = "reply"]
    /\ UNCHANGED <<wireVars, connVars, bookVars>>

\* What on_snapshot reads as the number of the reply, which has no seq.
SnapshotSeq == 0

\* L2Buffer.on_snapshot: the arrays are cleared, the book's epoch goes up, and of
\* the queue only later messages of that epoch remain.
Snapshot(b) ==
    LET Kept(m) == m.seq > SnapshotSeq /\ m.epoch = b.epoch + 1
    IN  [b EXCEPT
            !.ladders = [side \in Sides |-> <<>>],
            !.epoch = @ + 1, !.expected = SnapshotSeq + 1,
            !.queue = SelectSeq(@, Kept), !.trims = FALSE]

\* fetch_and_apply with the reply of the stub, then synced = True in resync or
\* on_snapshot.
Reply(t) ==
    LET b == IF book = None THEN NewBook ELSE book
    IN  /\ pc[t] = "reply" /\ b.epoch < MaxSnapshots
        /\ book' = Snapshot(b) /\ since' = None
        /\ synced' = TRUE
        /\ pc' = [pc EXCEPT ![t] = "idle"]
        /\ UNCHANGED <<wireVars, link, epoch, lastU, tokens>>

\* The call fails or times out: fetch_and_apply returns False.
FetchFailed(t) ==
    /\ FetchFails /\ pc[t] = "reply"
    /\ synced' = TRUE
    /\ pc' = [pc EXCEPT ![t] = "idle"]
    /\ UNCHANGED <<wireVars, link, epoch, lastU, bookVars, tokens>>

\* on_snapshot of the manager.
OnSnapshot(t) ==
    /\ epoch > 0
    /\ Ask(t)
    /\ UNCHANGED <<wireVars, connVars, bookVars>>

-----------------------------------------------------------------------------
(* handle_message of the current connection for the changes first..final;  *)
(* a message of an older one changes nothing.                              *)

Arrives(t, first, final) ==
    /\ epoch > 0 /\ pc[t] = "idle"
    /\ delivered < first /\ first <= final
    /\ delivered' = final
    /\ UNCHANGED <<tape, link, epoch>>

\* Not synchronised: into pre_sync_queue, if there is a book, under the key seq,
\* which a message with U and u need not have.
Queue(t, first, final) ==
    /\ ~synced
    /\ Arrives(t, first, final)
    /\ book # None => Len(book.queue) < MaxQueue
    /\ \/ book = None /\ UNCHANGED book
       \/ /\ book # None
          /\ \E seq \in {0} \cup (IF first = final THEN {final} ELSE {}) :
                book' = [book EXCEPT !.queue = Append(@, [seq |-> seq, epoch |-> epoch])]
    /\ UNCHANGED <<synced, lastU, since, taskVars>>

\* Mutant of IsGap: one change may be missing.
IsGap_Tolerant(first) == first > lastU + 2

\* validate
IsStale(final) == final <= lastU
IsGap(first)   == first > lastU + 1

Resync(t, first, final) ==
    /\ synced /\ ~IsStale(final) /\ IsGap(first)
    /\ Arrives(t, first, final)
    /\ synced' = FALSE
    /\ Ask(t)
    /\ UNCHANGED <<lastU, bookVars>>

\* The validator has moved on before apply_batch compares the epochs and maybe
\* refuses the batch.
Accepts == book # None /\ book.epoch = epoch

Apply(t, first, final) ==
    /\ synced /\ ~IsStale(final) /\ ~IsGap(first)
    /\ Arrives(t, first, final)
    /\ lastU' = final
    /\ \/ /\ Accepts /\ Fits(book, DiffsOf(first, final))
          /\ book' = Applied(book, DiffsOf(first, final))
          /\ since' = [first |-> IF since = None THEN first ELSE since.first,
                       from |-> first, last |-> final]
       \/ ~Accepts /\ UNCHANGED bookVars
    /\ UNCHANGED <<synced, taskVars>>

Next ==
    \/ Connect \/ Disconnect \/ LinkDone \/ Refill
    \/ \E t \in Tasks : Retry(t) \/ Reply(t) \/ FetchFailed(t) \/ OnSnapshot(t)
    \/ \E t \in Tasks, first, final \in Numbers :
        \/ Queue(t, first, final)
        \/ Resync(t, first, final)
        \/ Apply(t, first, final)

Spec == Init /\ [][Next]_vars

-----------------------------------------------------------------------------
(* Properties                                                              *)

\* apply_batch, on_snapshot: whatever the order of inserts, deletes and trims,
\* a ladder is strictly sorted, best first, without empty levels, and no longer
\* than its array.  The other variables have their types.
TypeOK ==
    /\ tape \in Tapes /\ delivered \in 0 .. Len(tape)
    /\ link \in {"none", "open", "closing"} /\ epoch \in 0 .. MaxConnects
    /\ synced \in BOOLEAN /\ lastU \in 0 .. delivered
    /\ pc \in [Tasks -> {"idle", "token", "reply"}] /\ tokens \in 0 .. Burst
    /\ book # None =>
        /\ book.epoch \in 0 .. MaxSnapshots
        /\ \A side \in Sides :
            LET ladder == book.ladders[side]
            IN  /\ ladder \in Seq(Levels) /\ Len(ladder) <= MaxBuffer
                /\ \A i, j \in DOMAIN ladder :
                    i < j => Better(side, ladder[i].price, ladder[j].price)

\* The quantity the changes first..last leave at a price of an empty book.
QtyAfter(first, last, side, price) ==
    LET diffs == DiffsOf(first, last)
        hits  == {i \in DOMAIN diffs : diffs[i].side = side /\ diffs[i].price = price}
    IN  IF hits = {} THEN 0 ELSE diffs[Max(hits)].qty

\* handle_message, validate, apply_batch, on_snapshot: the book is what the
\* exchange's changes make of an empty book, each of them from the first applied
\* since the snapshot to the last, through lost messages, resyncs, snapshots in
\* between, failed fetches, refused batches and reconnects, as long as no ladder
\* was trimmed since the snapshot; so it is the exchange's book if the first was
\* change 1.  Every state is of its type.
BookMatchesChanges ==
    /\ TypeOK
    /\ book # None /\ ~book.trims =>
        \A side \in Sides, price \in Prices :
            LET ladder == book.ladders[side]
                held   == {ladder[i].qty : i \in {j \in DOMAIN ladder : ladder[j].price = price}}
                qty    == IF since = None THEN 0
                          ELSE QtyAfter(since.first, since.last, side, price)
            IN  held = IF qty = 0 THEN {} ELSE {qty}

Batch == DiffsOf(since.from, since.last)

\* trim: a batch takes away the levels it does not name only when the ladder
\* would be full, and then none that is better than one that stays.
TrimKeepsBest ==
    [][book # None /\ book'.epoch = book.epoch /\ book'.ladders # book.ladders =>
        \A side \in Sides :
            LET old   == book.ladders[side]
                new   == book'.ladders[side]
                diffs == {i \in DOMAIN Batch' : Batch'[i].side = side}
                calm  == {l \in ToSet(old) : \A i \in diffs : Batch'[i].price # l.price}
                lost  == calm \ ToSet(new)
            IN  lost # {} =>
                  /\ \A l \in lost, k \in calm \ lost : Better(side, k.price, l.price)
                  /\ Len(old) + Cardinality(diffs) >= MaxBuffer
      ]_vars
=============================================================================
