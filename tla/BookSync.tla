------------------------------- MODULE BookSync -------------------------------
(***************************************************************************)
(* How the order book of one symbol is kept in step with the exchange:     *)
(* bootstrap, gap bridge, live updates and rotation of the shadow runner   *)
(* (src/tests/shadow/runner.py) with the MEXC mode of SequenceValidator    *)
(* (src/src/data_layer/seq.py), the subscriptions of MEXCWSClient          *)
(* (src/src/data_layer/mexc_ws.py) and the two calls of MEXCRestClient     *)
(* (src/src/data_layer/mexc_rest.py).                                      *)
(*                                                                         *)
(* Symbols share no state here, so one symbol is modelled.  The read loop  *)
(* of the WebSocket and the driver (bootstrap, then the rotation loop) are *)
(* two tasks; the driver gives way only while it awaits the REST client,   *)
(* the validator's locks being free.  A book is the set of versions whose  *)
(* changes it reflects; a push covers a range of versions and is numbered  *)
(* by the last one, as MEXC throttles its messages.                        *)
(*                                                                         *)
(* The live resync of on_depth asks for a validator without state or with  *)
(* another epoch.  set_epoch precedes every synced = True and the epoch is *)
(* always 1, so it is never taken: with lastU = None, Stale would have no  *)
(* value and TLC would stop.  The WebSocket client never reconnects.       *)
(***************************************************************************)
EXTENDS Integers, Sequences, FiniteSets, FiniteSetsExt

CONSTANTS
    MaxVersion,   \* bound of the exchange's version
    MaxWire,      \* bound of the messages on the wire
    MaxCommits,   \* MAX_COMMITS_LIMIT
    Throttled,    \* may one push cover several versions?
    RestFails,    \* may a REST call fail, or return no commits?
    Rotates,      \* is there a UniverseService to rotate the symbols?
    None

Versions == 1 .. MaxVersion
Push     == [from : Versions, to : Versions]

ASSUME BookSyncAssumption ==
    /\ MaxVersion \in Nat /\ MaxWire \in Nat /\ MaxCommits \in Nat \ {0}
    /\ Throttled \in BOOLEAN /\ RestFails \in BOOLEAN /\ Rotates \in BOOLEAN
    /\ None \notin Nat

VARIABLES
    ver,          \* the exchange's version of the book
    sent,         \* the version up to which pushes have been sent
    wire,         \* pushes on their way, in order
    subscribed,   \* symbol \in ws._subscribed
    member,       \* symbol \in runner.symbols
    synced,       \* runner.synced
    pending,      \* runner.pending
    lastU,        \* SeqState.last_u
    lastApplied,  \* runner.last_applied_version
    book,         \* versions the L2Book reflects
    driver,       \* "start", "snapshot", "bridge", "idle", "rotation" or "ended"
    askedAt,      \* version when the REST call in progress was sent
    remaining,    \* local variable of _bootstrap_symbol
    failed        \* a REST call has failed, or returned no commits

exchVars == <<ver, sent, wire>>
bookVars == <<lastU, lastApplied, book>>
taskVars == <<driver, askedAt, remaining, failed>>
vars == <<exchVars, subscribed, member, synced, pending, bookVars, taskVars>>

TypeOK ==
    /\ ver \in 0 .. MaxVersion /\ sent \in 0 .. ver
    /\ wire \in Seq(Push) /\ Len(wire) <= MaxWire
    /\ subscribed \in BOOLEAN /\ member \in BOOLEAN /\ synced \in BOOLEAN
    /\ pending \subseteq Push /\ remaining \subseteq pending
    /\ lastU \in 0 .. ver \cup {None} /\ lastApplied \in 0 .. ver
    /\ book \subseteq 1 .. ver
    /\ driver \in {"start", "snapshot", "bridge", "idle", "rotation", "ended"}
    /\ askedAt \in 0 .. ver /\ failed \in BOOLEAN

Top(S) == IF S = {} THEN 0 ELSE Max(S)

\* The process starts with the symbol in its list and connects.
Init ==
    /\ ver \in 0 .. MaxVersion
    /\ sent = ver /\ wire = <<>>
    /\ subscribed = TRUE /\ member = TRUE /\ synced = FALSE
    /\ pending = {} /\ remaining = {}
    /\ lastU = None /\ lastApplied = 0 /\ book = {}
    /\ driver = "start" /\ askedAt = 0 /\ failed = FALSE

-----------------------------------------------------------------------------
(* The exchange                                                            *)

Change ==
    /\ ver < MaxVersion
    /\ Throttled \/ ~subscribed \/ sent = ver
    /\ ver' = ver + 1
    /\ UNCHANGED <<sent, wire, subscribed, member, synced, pending, bookVars, taskVars>>

SendPush ==
    /\ subscribed /\ sent < ver /\ Len(wire) < MaxWire
    /\ wire' = Append(wire, [from |-> sent + 1, to |-> ver])
    /\ sent' = ver
    /\ UNCHANGED <<ver, subscribed, member, synced, pending, bookVars, taskVars>>

-----------------------------------------------------------------------------
(* on_depth                                                                *)

Diffs(pushes) == UNION {p.from .. p.to : p \in pushes}

Arrive(p) ==
    /\ wire # <<>> /\ p = Head(wire)
    /\ wire' = Tail(wire)
    /\ UNCHANGED <<ver, sent, subscribed, member, synced, taskVars>>

\* A symbol that is not in runner.symbols.
DropForeign(p) ==
    /\ ~member
    /\ Arrive(p)
    /\ UNCHANGED <<pending, bookVars>>

Buffer(p) ==
    /\ member /\ ~synced
    /\ Arrive(p)
    /\ pending' = pending \cup {p}
    /\ UNCHANGED bookVars

\* validate: every version above last_u is accepted.
Stale(p) == p.to <= lastU

DropStale(p) ==
    /\ member /\ synced /\ Stale(p)
    /\ Arrive(p)
    /\ UNCHANGED <<pending, bookVars>>

Apply(p) ==
    /\ member /\ synced /\ ~Stale(p)
    /\ Arrive(p)
    /\ lastU' = p.to
    /\ book' = book \cup Diffs({p})
    /\ lastApplied' = p.to
    /\ UNCHANGED pending

-----------------------------------------------------------------------------
(* _bootstrap_symbol                                                       *)

\* _bootstrap without its deadline: it waits for a buffered push.
AskSnapshot_NoDeadline ==
    /\ driver = "start" /\ pending # {}
    /\ driver' = "snapshot" /\ askedAt' = ver
    /\ UNCHANGED <<exchVars, subscribed, member, synced, pending, bookVars, remaining, failed>>

\* _bootstrap waits three seconds for a push to be buffered, then goes on.
AskSnapshot ==
    /\ driver = "start"
    /\ driver' = "snapshot" /\ askedAt' = ver
    /\ UNCHANGED <<exchVars, subscribed, member, synced, pending, bookVars, remaining, failed>>

\* An exception of fetch_snapshot ends run.
SnapshotFails ==
    /\ RestFails /\ driver = "snapshot" /\ failed' = TRUE
    /\ driver' = "ended"
    /\ UNCHANGED <<exchVars, subscribed, member, synced, pending, bookVars,
                   askedAt, remaining>>

\* The pushes that follow version base in strict +1 order.
Chain(pushes, base) ==
    {p \in pushes : p.to > base /\
        \A v \in (base + 1) .. p.to : \E q \in pushes : q.to = v}

\* The last version after applying pushes to version base.
Upto(pushes, base) == Top({p.to : p \in pushes} \cup {base})

Synced ==
    /\ synced' = TRUE
    /\ pending' = {} /\ remaining' = {}
    /\ driver' = "idle"

\* The snapshot of version v, taken while the call was in progress: older
\* pushes are discarded and those in +1 order applied.  What is left is a
\* gap, to be bridged by the commits.
Snapshot(v) ==
    LET chain == Chain(pending, v)
        gap   == {p \in pending : p.to > v} \ chain
    IN  /\ driver = "snapshot" /\ v \in askedAt .. ver
        /\ book' = 1 .. v \cup Diffs(chain)
        /\ lastApplied' = Upto(chain, v)
        /\ lastU' = v
        /\ IF gap = {} THEN Synced /\ UNCHANGED askedAt
           ELSE /\ driver' = "bridge" /\ remaining' = gap /\ askedAt' = ver
                /\ UNCHANGED <<synced, pending>>
        /\ UNCHANGED <<exchVars, subscribed, member, failed>>

\* The end of _bootstrap_symbol: what of the gap follows version v is
\* applied, and the buffer is emptied.
BridgeEnds(reflected, v) ==
    LET chain == Chain(remaining, v)
    IN  /\ book' = reflected \cup Diffs(chain)
        /\ lastApplied' = Upto(chain, v)
        /\ Synced
        /\ UNCHANGED <<exchVars, subscribed, member, askedAt>>

\* set_last_u at the end of _gap_recover.
BridgedU(recovered) == Top(recovered \cup {lastApplied})

\* The loop of _gap_recover without its break.
Recovered_OverGap(w) ==
    {v \in (lastApplied + 1) .. w : v > w - MaxCommits}

\* Of the last MaxCommits commits up to version w, those that follow the
\* book without a gap.
Recovered(w) ==
    {v \in (lastApplied + 1) .. w : lastApplied + 1 > w - MaxCommits}

\* _gap_recover.
BridgeCommits(w) ==
    LET recovered == Recovered(w)
    IN  /\ driver = "bridge" /\ w \in askedAt .. ver
        /\ lastU' = BridgedU(recovered)
        /\ BridgeEnds(book \cup recovered, Top(recovered \cup {lastApplied}))
        /\ UNCHANGED failed

\* No commits returned.
BridgeEmpty ==
    /\ RestFails /\ driver = "bridge" /\ failed' = TRUE
    /\ BridgeEnds(book, lastApplied)
    /\ UNCHANGED lastU

\* An exception of fetch_commits: the gap is skipped.
BridgeFails ==
    LET oldest == Min({p.to : p \in remaining})
    IN  /\ RestFails /\ driver = "bridge" /\ failed' = TRUE
        /\ lastU' = oldest - 1
        /\ BridgeEnds(book, oldest - 1)

-----------------------------------------------------------------------------
(* _apply_rotation                                                         *)

\* ws.subscribe, then the snapshot: until it has come the symbol is not in
\* runner.symbols.
RotateIn ==
    /\ Rotates /\ driver = "idle" /\ ~subscribed
    /\ subscribed' = TRUE /\ sent' = ver
    /\ driver' = "rotation" /\ askedAt' = ver
    /\ UNCHANGED <<ver, wire, member, synced, pending, bookVars, remaining, failed>>

RotationU_Forgotten(v) == lastU

RotationU(v) == v

RotationSnapshot(v) ==
    /\ driver = "rotation" /\ v \in askedAt .. ver
    /\ member' = TRUE /\ synced' = TRUE
    /\ book' = 1 .. v
    /\ lastApplied' = v
    /\ lastU' = RotationU(v)
    /\ driver' = "idle"
    /\ UNCHANGED <<exchVars, subscribed, pending, askedAt, remaining, failed>>

\* The exception is logged; the WebSocket stays subscribed.
RotationFails ==
    /\ RestFails /\ driver = "rotation" /\ failed' = TRUE
    /\ driver' = "idle"
    /\ UNCHANGED <<exchVars, subscribed, member, synced, pending, bookVars,
                   askedAt, remaining>>

RotateOut_StillListens ==
    /\ Rotates /\ driver = "idle" /\ subscribed
    /\ subscribed' = FALSE
    /\ UNCHANGED <<exchVars, member, synced, pending, bookVars, taskVars>>

RotateOut ==
    /\ Rotates /\ driver = "idle" /\ subscribed
    /\ subscribed' = FALSE /\ member' = FALSE
    /\ UNCHANGED <<exchVars, synced, pending, bookVars, taskVars>>

-----------------------------------------------------------------------------
OnDepth ==
    \E p \in Push : DropForeign(p) \/ Buffer(p) \/ DropStale(p) \/ Apply(p)

Rest ==
    \/ SnapshotFails \/ BridgeEmpty \/ BridgeFails \/ RotationFails
    \/ \E v \in 0 .. MaxVersion : Snapshot(v) \/ BridgeCommits(v) \/ RotationSnapshot(v)

Next ==
    \/ Change \/ SendPush \/ OnDepth
    \/ AskSnapshot \/ Rest \/ RotateIn \/ RotateOut

Spec == Init /\ [][Next]_vars

\* The read loop takes every message and a REST call ends (its timeout is
\* bounded); nothing obliges the exchange to change or the runner to rotate.
FairSpec == Spec /\ WF_vars(OnDepth) /\ WF_vars(AskSnapshot) /\ WF_vars(Rest)

-----------------------------------------------------------------------------
(* Properties                                                              *)

\* last_applied_version, under which the runner stores the book, is the
\* newest version in the book: no older push is ever applied over a newer
\* state, whatever the snapshot, the bridge and the wire have overtaken.
\* Every state is of its type.
VersionLabelsBook == TypeOK /\ lastApplied = Top(book)

\* The bootstrap hands over a book without holes unless a REST call failed:
\* discarding, strict +1 order and bridge together lose nothing in between.
HandOverWithoutHoles ==
    [][~synced /\ synced' /\ ~failed' => book' = 1 .. Top(book')]_vars

\* A symbol subscribed at the WebSocket is one the runner listens to, except
\* while its snapshot is awaited (as long as no REST call has failed).
SubscribedIsHeard ==
    ~failed /\ driver # "rotation" => (subscribed <=> member)

\* Bootstrap always comes to an end: synced, or the process stops.
BootstrapEnds == (driver = "start") ~> (driver \in {"idle", "ended"})
==============================================================================
