----------------------------- MODULE EventScan -----------------------------
(***************************************************************************)
(* Attribution of self-CPI events (utils/transaction.rs,                   *)
(* get_program_instructions, direct_child_events and find_event_data).     *)
(*                                                                         *)
(* The runtime is external: it executes one top-level instruction, which   *)
(* may invoke others, and records each invocation in one flat list with    *)
(* its stack height.  The scan sees the list only; who invoked whom is     *)
(* history, and the scan has to find it out.                               *)
(***************************************************************************)
EXTENDS Naturals, Sequences

CONSTANTS MaxHeight,   \* deepest stack height the runtime allows
          MaxTrace     \* bound: inner instructions

ASSUME ScanAssumption == MaxHeight \in Nat \ {0} /\ MaxTrace \in Nat

(* A call of the AMM program that trades; one of its instructions with     *)
(* less than 16 bytes of data; a self-CPI of it with the event of a trade; *)
(* one with an event of another type; any other program.                   *)
Kinds  == {"trade", "short", "event", "note", "other"}
Events == {"event", "note"}

VARIABLES
    heights,  \* the metadata has stack heights; older ones have none
    top,      \* kind of the top-level instruction
    trace,    \* inner instructions, in execution order: kind, height
    stack,    \* positions of the invocations under way, 0 for the top level
    parent    \* history: position -> position of its caller

vars == <<heights, top, trace, stack, parent>>

Init == /\ heights \in BOOLEAN /\ top \in {"trade", "other"}
        /\ trace = <<>> /\ parent = <<>> /\ stack = <<0>>

KindOf(p) == IF p = 0 THEN top ELSE trace[p].kind
Running == stack[Len(stack)]

(* External: an invocation.  Only a trade emits events, and an event calls *)
(* nothing; apart from that any program may call any other, the AMM        *)
(* program itself included (a hop of a route that is a trade of its own).  *)
MayInvoke(caller, kind) == caller \notin Events /\ (kind \in Events => caller = "trade")

\* Mutant: heights count from zero.
InvokeHeightZero(kind) ==
    /\ stack # <<>> /\ Len(stack) < MaxHeight /\ Len(trace) < MaxTrace
    /\ MayInvoke(KindOf(Running), kind)
    /\ trace' = Append(trace, [kind |-> kind, height |-> Len(stack)])
    /\ parent' = Append(parent, Running)
    /\ stack' = Append(stack, Len(trace) + 1)
    /\ UNCHANGED <<heights, top>>

Invoke(kind) ==
    /\ stack # <<>> /\ Len(stack) < MaxHeight /\ Len(trace) < MaxTrace
    /\ MayInvoke(KindOf(Running), kind)
    /\ trace' = Append(trace, [kind |-> kind, height |-> Len(stack) + 1])
    /\ parent' = Append(parent, Running)
    /\ stack' = Append(stack, Len(trace) + 1)
    /\ UNCHANGED <<heights, top>>

Return ==
    /\ stack # <<>>
    /\ stack' = SubSeq(stack, 1, Len(stack) - 1)
    /\ UNCHANGED <<heights, top, trace, parent>>

Next == (\E kind \in Kinds : Invoke(kind)) \/ Return

Spec == Init /\ [][Next]_vars

-----------------------------------------------------------------------------
(* get_program_instructions: the instructions of the AMM program, by       *)
(* position; start_inner_pos is the position itself, 0 for the top level.  *)
Listed == {p \in 0..Len(trace) : KindOf(p) # "other"}

HeightOf(p) == IF p = 0 THEN 1 ELSE trace[p].height

\* The stack height of a trade: 1 at the top level, or without heights.
TradeStack(p) == IF heights THEN HeightOf(p) ELSE 1

\* Mutant: the scan goes on past the end of the call.
SubtreeUnbounded(p) == (p + 1)..Len(trace)

(* skip(start_inner_pos), then take_while(height > trade_stack): no height *)
(* is as good as any.  A top-level instruction without a block of inner    *)
(* instructions has the empty trace.                                       *)
Subtree(p) == {q \in (p + 1)..Len(trace) :
                 \A i \in (p + 1)..q : heights => trace[i].height > TradeStack(p)}

\* Direct children, of the AMM program, with at least 16 bytes of data.
DirectChildEvents(p) ==
    {q \in Subtree(p) : /\ heights => trace[q].height = TradeStack(p) + 1
                        /\ trace[q].kind \notin {"short", "other"}}

\* Mutant: the first event, whatever its discriminator.
FirstEventData(p) == {q \in DirectChildEvents(p) : \A e \in DirectChildEvents(p) : q <= e}

(* find_event_data: the first of them with the discriminator of the trade; *)
(* where that is looked for, a nested trade has its first argument, which  *)
(* as an amount would be far above the supply of any token.                *)
FindEventData(p) ==
    LET own == {q \in DirectChildEvents(p) : trace[q].kind = "event"}
    IN {q \in own : \A e \in own : q <= e}

-----------------------------------------------------------------------------
TypeOK ==
    /\ heights \in BOOLEAN /\ top \in {"trade", "other"}
    /\ trace \in Seq([kind: Kinds, height: 2..MaxHeight])
    /\ parent \in Seq(0..MaxTrace) /\ Len(parent) = Len(trace)
    /\ stack \in Seq(0..MaxTrace)

EmittedBy(p) == {q \in DOMAIN trace : parent[q] = p /\ trace[q].kind \in Events}

\* Trades of the AMM program that an instruction of it called directly.
NestedTrades(p) == {q \in DOMAIN trace : parent[q] = p /\ trace[q].kind = "trade"}

(* An instruction gets all events it emitted, also after a nested call     *)
(* returned.  With stack heights it gets none of a sibling, of a nested    *)
(* trade or of its caller; what it gets besides are the instructions of    *)
(* trades it called directly, which pass for payloads by their length and  *)
(* are told from events only by the bytes where a discriminator would be.  *)
ChildEventsAreOwn ==
    \A p \in Listed :
        /\ EmittedBy(p) \subseteq DirectChildEvents(p)
        /\ heights => DirectChildEvents(p) \subseteq EmittedBy(p) \cup NestedTrades(p)

\* The first trade event an instruction emitted itself, if any.
OwnTradeEvent(p) == LET own == {q \in EmittedBy(p) : trace[q].kind = "event"}
                    IN {q \in own : \A e \in own : q <= e}

(* find_event_data gives a trade its own first trade event, and none if it *)
(* has none, though other events of its own and of other trades surround   *)
(* it.  Without stack heights it still does so when the trade has one and  *)
(* no other trade began before it.                                         *)
FindsOwnTradeEvent ==
    \A p \in Listed :
        heights \/ (\E e \in OwnTradeEvent(p) : \A q \in (p + 1)..e : trace[q].kind # "trade")
            => FindEventData(p) = OwnTradeEvent(p)

=============================================================================
