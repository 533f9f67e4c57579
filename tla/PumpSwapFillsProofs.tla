------------------------ MODULE PumpSwapFillsProofs ------------------------
(***************************************************************************)
(* Proofs about the fills of one PumpSwap instruction, for every set of    *)
(* mints and whitelist, every number of hops, whatever they trade, and     *)
(* every length of an instruction's name.                                  *)
(***************************************************************************)
EXTENDS PumpSwapFills, SequenceTheorems, TLAPS

-----------------------------------------------------------------------------
(* The inductive invariant.                                                *)

Hop == [in: Mints, out: Mints, buy: BOOLEAN, kind: HopKinds]

\* A hop as its group of accounts shows it.
HopAt(i) == [base |-> Base(route[i]), quote |-> Quote(route[i]), pool |-> PoolOf(route[i])]

RouteInv ==
    /\ route \in Seq(Hop) /\ Len(route) <= MaxHops
    /\ \A i \in DOMAIN route : route[i].in # route[i].out
    /\ pc # "route" => route # <<>>
    /\ hops = IF pc = "route" \/ single # "none" THEN <<>> ELSE [i \in 1..Len(route) |-> HopAt(i)]

\* The sequence lists the fills of the hops in S, in route order.
Lists(fs, S, fill) ==
    \E at \in [DOMAIN fs -> DOMAIN fill] :
        Enumerates(at, S) /\ \A k \in DOMAIN fs : fs[k] = fill[at[k]]

IsSequence(s) == s \in Seq({s[i] : i \in DOMAIN s})

\* The fills of the hops of a route that succeeded, and of one that failed.
ExecutedFill(i) ==
    EventFill(HopAt(i), HopType(hops, HopAt(i), route[i].buy), route[i].buy,
              Amounts(HopMoves[i].token, HopMoves[i].volume, HopMoves[i].base,
                      Priced(HopMoves[i])))

ExecutedFills  == [i \in DOMAIN route |-> ExecutedFill(i)]
RequestedFills == [i \in DOMAIN route |-> RequestedFill(i)]

Event(rt) == [kind: {"note", "foreign", "trade"}, hop: DOMAIN rt]

\* The events of route rt from hop k on: the trades of its pool hops, in route
\* order, and others.
EventsFrom(es, rt, k) ==
    /\ es \in Seq(Event(rt))
    /\ \A j \in DOMAIN es : es[j].kind = "trade" =>
          es[j].hop >= k /\ rt[es[j].hop].kind # "curve"
    /\ \A j, l \in DOMAIN es :
          j < l /\ es[j].kind = "trade" /\ es[l].kind = "trade" => es[j].hop < es[l].hop
    /\ \A i \in k..Len(rt) : rt[i].kind # "curve" =>
          \E j \in DOMAIN es : es[j].kind = "trade" /\ es[j].hop = i

RecordableBefore(k) == {i \in Recordable : i < k}

\* The hops before k are done.
DoneBefore(k, fill) ==
    /\ nextHop <= k /\ Len(fills) < k
    /\ Lists(fills, RecordableBefore(k), fill)

\* A failed route: the mint a hop was fed and the mint it passed on, by its
\* side.
FedTo(i)      == IF sides[i] THEN hops[i].quote ELSE hops[i].base
PassedFrom(i) == IF sides[i] THEN hops[i].base ELSE hops[i].quote

\* The hops chain, and the mint spent can be told.
Telling == Chains(route) /\ (row \/ ~Ambiguous)

SidesInv ==
    /\ ~success /\ events = <<>> /\ sides \in Seq(BOOLEAN) /\ Len(sides) <= Len(route)
    /\ row \/ ~Ambiguous
    /\ current \in Mints
    /\ \A i \in 1..Len(sides) :
          (IF i = Len(sides) THEN current ELSE FedTo(i + 1)) = PassedFrom(i)
    /\ Chains(route) =>
          /\ \A i \in 1..Len(sides) : sides[i] = route[i].buy
          /\ Len(sides) < Len(route) => current = route[Len(sides) + 1].in

\* By the point the handler is at.
InRoute    == /\ single = "none" /\ success /\ fills = <<>> /\ nextHop = 1 /\ sides = <<>>
              /\ EventsFrom(events, route, 1)
InEvents   == /\ single = "none" /\ success
              /\ \E k \in 1..(Len(route) + 1) :
                    EventsFrom(events, route, k) /\ DoneBefore(k, ExecutedFills)
InSides    == SidesInv /\ single = "none" /\ fills = <<>> /\ nextHop = 1
InRequests == /\ SidesInv /\ single = "none" /\ Len(sides) = Len(route)
              /\ DoneBefore(nextHop, RequestedFills)
Succeeded  == Lists(fills, Recordable, ExecutedFills)
Failed     == \/ fills = <<>> /\ ~Telling
              \/ SidesInv /\ Len(sides) = Len(route) /\ Lists(fills, Recordable, RequestedFills)

Inv ==
    /\ TypeOK /\ RouteInv /\ IsSequence(fills)
    /\ pc = "route" => InRoute
    /\ pc = "events" => InEvents
    /\ pc = "sides" => InSides
    /\ pc = "requests" => InRequests
    /\ RouteDone /\ success => Succeeded
    /\ RouteDone /\ ~success => Failed
    /\ pc = "done" /\ single # "none" => AmountsDecoded

-----------------------------------------------------------------------------
(* Payloads.                                                               *)

\* The amounts of a trade, with the quote reserves the pool prices against.
AmountsRead(t, quote) == {Amounts(t.token, t.volume, t.base, quote)}

\* The sum clamped to u64 is the u64 nearest to it, and the only one.
LEMMA ClampedIsPriced ==
    ASSUME NEW move \in Moves
    PROVE  EffectiveQuote(move.raw, {move.virtual}) = Priced(move)
<1> DEFINE sum == move.raw + move.virtual
           c   == IF sum < 0 THEN 0 ELSE IF sum > U64Max THEN U64Max ELSE sum
           Nearest(v) == \A w \in U64 : Distance(v, sum) <= Distance(w, sum)
<1>1. U64Max \in Nat /\ move.raw \in Int /\ move.virtual \in Int
  BY U64Assumption DEF Moves, U64
<1>2. sum \in Int
  BY <1>1
<1>3. EffectiveQuote(move.raw, {move.virtual}) = c
  <2>1. (CHOOSE v \in {move.virtual} : TRUE) = move.virtual /\ {move.virtual} # {}
    OBVIOUS
  <2>2. QED BY <2>1 DEF EffectiveQuote
<1>4. Priced(move) = CHOOSE v \in U64 : Nearest(v)
  BY DEF Priced
<1> HIDE DEF sum
<1>5. c \in U64
  BY <1>1, <1>2 DEF U64
<1>6. Nearest(c)
  BY <1>1, <1>2 DEF U64, Distance
<1>7. ASSUME NEW v \in U64, Nearest(v) PROVE v = c
  <2>1. v \in Int /\ 0 <= v /\ v <= U64Max
    BY <1>1 DEF U64
  <2>2. Distance(v, sum) <= Distance(c, sum)
    BY <1>5, <1>7
  <2>3. QED BY <1>1, <1>2, <2>1, <2>2 DEF Distance
<1>8. QED
  <2> HIDE DEF c
  <2> DEFINE q == CHOOSE v \in U64 : Nearest(v)
  <2>1. q \in U64 /\ Nearest(q)
    BY <1>5, <1>6
  <2> HIDE DEF q
  <2>2. q = c
    BY <1>7, <2>1
  <2>3. QED BY <1>3, <1>4, <2>2 DEF q

\* The fields of a payload, with its quote volumes as a buy and as a sell has them.
Reads(p, t, bought, sold) ==
    /\ p.disc # "boost" /\ TokenAmount(p) = {t.token} /\ QuoteVolume(p) = {<<bought, sold>>}
    /\ PoolReserves(p) = {<<t.base, t.raw>>}

\* What event_amounts makes of them.
LEMMA AmountsOfReads ==
    ASSUME NEW p, NEW t, NEW bought, NEW sold, Reads(p, t, bought, sold)
    PROVE  /\ t.volume = bought =>
                 EventAmounts(p, TRUE) = AmountsRead(t, EffectiveQuote(t.raw, VirtualQuote(p, TRUE)))
           /\ t.volume = sold =>
                 EventAmounts(p, FALSE) = AmountsRead(t, EffectiveQuote(t.raw, VirtualQuote(p, FALSE)))
<1> DEFINE amounts(buy) == Amounts(t.token, IF buy THEN bought ELSE sold, t.base,
                                   EffectiveQuote(t.raw, VirtualQuote(p, buy)))
<1>1. ASSUME NEW buy \in BOOLEAN, NEW x
      PROVE  x \in EventAmounts(p, buy) <=>
               \E res \in PoolReserves(p), vol \in QuoteVolume(p), tok \in TokenAmount(p) :
                  x = Amounts(tok, IF buy THEN vol[1] ELSE vol[2], res[1],
                              EffectiveQuote(res[2], VirtualQuote(p, buy)))
  BY DEF EventAmounts, Reads
<1>2. /\ <<bought, sold>>[1] = bought /\ <<bought, sold>>[2] = sold
      /\ <<t.base, t.raw>>[1] = t.base /\ <<t.base, t.raw>>[2] = t.raw
  OBVIOUS
<1>3. ASSUME NEW buy \in BOOLEAN, NEW x PROVE x \in EventAmounts(p, buy) <=> x = amounts(buy)
  BY <1>1, <1>2 DEF Reads
<1>4. \A x : x \in EventAmounts(p, TRUE) <=> x = amounts(TRUE)
  BY <1>3
<1>5. \A x : x \in EventAmounts(p, FALSE) <=> x = amounts(FALSE)
  BY <1>3
<1>6. QED BY <1>4, <1>5 DEF AmountsRead

\* And for one too short for the volumes.
LEMMA NoAmounts ==
    ASSUME NEW p, p.disc # "boost", NEW buy \in BOOLEAN, QuoteVolume(p) = {}
    PROVE  EventAmounts(p, buy) = {}
BY DEF EventAmounts

\* A buy, whatever the length of its ix_name.
LEMMA BuyReads ==
    ASSUME NEW t, t.name \in Nat
    PROVE  /\ EventPool(BuyPayload(t, "new")) = {t.pool}
           /\ EventPool(BuyPayload(t, "cut")) = {}
           /\ EventAmounts(BuyPayload(t, "new"), TRUE)
                = AmountsRead(t, EffectiveQuote(t.raw, {t.virtual}))
           /\ EventAmounts(BuyPayload(t, "old"), TRUE) = AmountsRead(t, t.raw)
           /\ EventAmounts(BuyPayload(t, "cut"), TRUE) = {}
<1> DEFINE p(version) == BuyPayload(t, version)
<1>1. /\ p("new").disc = "buy" /\ p("old").disc = "buy" /\ p("cut").disc = "buy"
      /\ p("new").len = 462 + t.name /\ p("old").len = 437 + t.name /\ p("cut").len = 119
  BY DEF BuyPayload, Cut
<1>2. ASSUME NEW version
      PROVE  LET f == p(version).fields IN
             /\ {16, 48, 56, 64, 112, 120, 401, 437 + t.name} \subseteq DOMAIN f
             /\ f[16] = t.token /\ f[48] = t.base /\ f[56] = t.raw /\ f[112] = t.volume
             /\ f[120] = t.pool /\ f[401] = t.name /\ f[437 + t.name] = t.virtual
  BY DEF BuyPayload, Prefix
<1> HIDE DEF p
<1>3. ASSUME NEW version, version \in {"new", "old"}
      PROVE  /\ Read(p(version), 16, 8) = {t.token} /\ Read(p(version), 120, 32) = {t.pool}
             /\ Read(p(version), 48, 8) = {t.base} /\ Read(p(version), 56, 8) = {t.raw}
             /\ Read(p(version), 112, 8) = {t.volume} /\ Read(p(version), 401, 4) = {t.name}
             /\ \E other : Read(p(version), 64, 8) = {other}
  <2>1. p(version).len \in Int /\ p(version).len >= 437
    BY <1>1, <1>3
  <2>2. Read(p(version), 16, 8) = {t.token} /\ Read(p(version), 120, 32) = {t.pool}
    BY <1>2, <2>1 DEF Read
  <2>3. Read(p(version), 48, 8) = {t.base} /\ Read(p(version), 56, 8) = {t.raw}
    BY <1>2, <2>1 DEF Read
  <2>4. Read(p(version), 112, 8) = {t.volume} /\ Read(p(version), 401, 4) = {t.name}
    BY <1>2, <2>1 DEF Read
  <2>5. Read(p(version), 64, 8) = {p(version).fields[64]}
    BY <1>2, <2>1 DEF Read
  <2>6. QED BY <2>2, <2>3, <2>4, <2>5, Zenon
<1>4. ASSUME NEW version, version \in {"new", "old"}, NEW q, VirtualQuote(p(version), TRUE) = q
      PROVE  EventAmounts(p(version), TRUE) = AmountsRead(t, EffectiveQuote(t.raw, q))
  <2>1. PICK other : Read(p(version), 64, 8) = {other}
    BY <1>3, <1>4
  <2>2. p(version).len >= 120 /\ p(version).disc # "boost"
    BY <1>1, <1>4
  <2>3. Reads(p(version), t, t.volume, other)
    BY <1>3, <1>4, <1>1, <2>1, <2>2 DEF Reads, PoolReserves, QuoteVolume, TokenAmount, ReadBoth
  <2>4. QED BY <1>4, <2>3, AmountsOfReads
<1>5. EventAmounts(p("cut"), TRUE) = {}
  <2>1. QuoteVolume(p("cut")) = {} /\ p("cut").disc # "boost"
    BY <1>1 DEF QuoteVolume, ReadBoth
  <2>2. QED BY <2>1, NoAmounts
<1>6. VirtualQuote(p("new"), TRUE) = {t.virtual}
  <2>1. Read(p("new"), 401 + 4 + t.name + 32, 16) = {t.virtual}
    BY <1>1, <1>2 DEF Read
  <2>2. QED BY <1>3, <2>1 DEF VirtualQuote
<1>7. VirtualQuote(p("old"), TRUE) = {}
  <2>1. Read(p("old"), 401 + 4 + t.name + 32, 16) = {}
    BY <1>1 DEF Read
  <2>2. QED BY <1>3, <2>1 DEF VirtualQuote
<1>8. EventPool(p("new")) = {t.pool} /\ EventPool(p("cut")) = {}
  BY <1>1, <1>3 DEF EventPool, Read
<1>9. EffectiveQuote(t.raw, {}) = t.raw
  BY DEF EffectiveQuote
<1>10. QED BY <1>4, <1>5, <1>6, <1>7, <1>8, <1>9 DEF p

\* A sell.
LEMMA SellReads ==
    ASSUME NEW t
    PROVE  /\ EventPool(SellPayload(t, "new")) = {t.pool}
           /\ EventPool(SellPayload(t, "cut")) = {}
           /\ EventAmounts(SellPayload(t, "new"), FALSE)
                = AmountsRead(t, EffectiveQuote(t.raw, {t.virtual}))
           /\ EventAmounts(SellPayload(t, "old"), FALSE) = AmountsRead(t, t.raw)
           /\ EventAmounts(SellPayload(t, "cut"), FALSE) = {}
<1> DEFINE p(version) == SellPayload(t, version)
<1>1. /\ p("new").disc = "sell" /\ p("old").disc = "sell" /\ p("cut").disc = "sell"
      /\ p("new").len = 417 /\ p("old").len = 392 /\ p("cut").len = 119
  BY DEF SellPayload, Cut
<1>2. ASSUME NEW version
      PROVE  LET f == p(version).fields IN
             /\ {16, 48, 56, 64, 112, 120, 392} \subseteq DOMAIN f
             /\ f[16] = t.token /\ f[48] = t.base /\ f[56] = t.raw /\ f[64] = t.volume
             /\ f[120] = t.pool /\ f[392] = t.virtual
  BY DEF SellPayload, Prefix
<1> HIDE DEF p
<1>3. ASSUME NEW version, version \in {"new", "old"}
      PROVE  /\ Read(p(version), 16, 8) = {t.token} /\ Read(p(version), 120, 32) = {t.pool}
             /\ Read(p(version), 48, 8) = {t.base} /\ Read(p(version), 56, 8) = {t.raw}
             /\ Read(p(version), 64, 8) = {t.volume}
             /\ \E other : Read(p(version), 112, 8) = {other}
  BY <1>1, <1>2, <1>3 DEF Read
<1>4. ASSUME NEW version, version \in {"new", "old"}, NEW q, VirtualQuote(p(version), FALSE) = q
      PROVE  EventAmounts(p(version), FALSE) = AmountsRead(t, EffectiveQuote(t.raw, q))
  <2>1. PICK other : Read(p(version), 112, 8) = {other}
    BY <1>3, <1>4
  <2>2. p(version).len >= 120 /\ p(version).disc # "boost"
    BY <1>1, <1>4
  <2>3. Reads(p(version), t, other, t.volume)
    BY <1>3, <1>4, <1>1, <2>1, <2>2 DEF Reads, PoolReserves, QuoteVolume, TokenAmount, ReadBoth
  <2>4. QED BY <1>4, <2>3, AmountsOfReads
<1>5. EventAmounts(p("cut"), FALSE) = {}
  <2>1. QuoteVolume(p("cut")) = {} /\ p("cut").disc # "boost"
    BY <1>1 DEF QuoteVolume, ReadBoth
  <2>2. QED BY <2>1, NoAmounts
<1>6. VirtualQuote(p("new"), FALSE) = {t.virtual}
  BY <1>1, <1>2 DEF VirtualQuote, Read
<1>7. VirtualQuote(p("old"), FALSE) = {}
  BY <1>1 DEF VirtualQuote, Read
<1>8. EventPool(p("new")) = {t.pool} /\ EventPool(p("cut")) = {}
  BY <1>1, <1>3 DEF EventPool, Read
<1>9. EffectiveQuote(t.raw, {}) = t.raw
  BY DEF EffectiveQuote
<1>10. QED BY <1>4, <1>5, <1>6, <1>7, <1>8, <1>9 DEF p

\* A boost buy, whose virtual reserves are always there.
LEMMA BoostReads ==
    ASSUME NEW t
    PROVE  /\ \A version \in {"new", "old"} :
                 EventAmounts(BoostPayload(t, version), TRUE)
                   = AmountsRead(t, EffectiveQuote(t.raw, {t.virtual}))
           /\ EventAmounts(BoostPayload(t, "cut"), TRUE) = {}
<1>1. ASSUME NEW version \in {"new", "old"}
      PROVE  EventAmounts(BoostPayload(t, version), TRUE)
               = AmountsRead(t, EffectiveQuote(t.raw, {t.virtual}))
  <2> DEFINE p == BoostPayload(t, version)
  <2>1. p.disc = "boost" /\ p.len = 200
    BY DEF BoostPayload
  <2>2. LET f == p.fields IN
        /\ DOMAIN f = {152, 160, 168, 184, 192}
        /\ f[152] = t.volume /\ f[160] = t.token /\ f[168] = t.virtual /\ f[184] = t.raw
        /\ f[192] = t.base
    BY DEF BoostPayload
  <2> HIDE DEF p
  <2>3. /\ Read(p, 152, 8) = {t.volume} /\ Read(p, 160, 8) = {t.token}
        /\ Read(p, 168, 16) = {t.virtual} /\ Read(p, 184, 8) = {t.raw}
        /\ Read(p, 192, 8) = {t.base}
    BY <2>1, <2>2 DEF Read
  <2>4. ~(p.len < 200)
    BY <2>1
  <2>5. ASSUME NEW x
        PROVE  x \in BoostBuyEvent(p) <=>
                 x = Amounts(t.token, t.volume, t.base, EffectiveQuote(t.raw, {t.virtual}))
    <3>1. x \in BoostBuyEvent(p) <=>
            \E volume \in Read(p, 152, 8), token \in Read(p, 160, 8),
               virtual \in Read(p, 168, 16), raw \in Read(p, 184, 8), base \in Read(p, 192, 8) :
                  x = Amounts(token, volume, base, EffectiveQuote(raw, {virtual}))
      BY <2>4 DEF BoostBuyEvent
    <3>2. ASSUME x \in BoostBuyEvent(p)
          PROVE  x = Amounts(t.token, t.volume, t.base, EffectiveQuote(t.raw, {t.virtual}))
      BY <2>3, <3>1, <3>2
    <3>3. ASSUME x = Amounts(t.token, t.volume, t.base, EffectiveQuote(t.raw, {t.virtual}))
          PROVE  x \in BoostBuyEvent(p)
      <4>1. /\ t.volume \in Read(p, 152, 8) /\ t.token \in Read(p, 160, 8)
            /\ t.virtual \in Read(p, 168, 16) /\ t.raw \in Read(p, 184, 8)
            /\ t.base \in Read(p, 192, 8)
        BY <2>3
      <4>2. QED BY <3>1, <3>3, <4>1
    <3>4. QED BY <3>2, <3>3
  <2>6. EventAmounts(p, TRUE) = BoostBuyEvent(p)
    BY <2>1 DEF EventAmounts
  <2>7. QED BY <2>5, <2>6 DEF AmountsRead, p
<1>2. EventAmounts(BoostPayload(t, "cut"), TRUE) = {}
  BY DEF EventAmounts, BoostBuyEvent, BoostPayload
<1>3. QED BY <1>1, <1>2

-----------------------------------------------------------------------------
(* Sequences.                                                              *)

LEMMA FunctionIsSeq ==
    ASSUME NEW S, NEW k \in Nat, NEW f \in [1..k -> S]
    PROVE  f \in Seq(S) /\ Len(f) = k
OBVIOUS

LEMMA AppendAny ==
    ASSUME NEW s, IsSequence(s), NEW x
    PROVE  /\ Len(s) \in Nat /\ DOMAIN s = 1..Len(s)
           /\ IsSequence(Append(s, x)) /\ Len(Append(s, x)) = Len(s) + 1
           /\ DOMAIN Append(s, x) = 1..(Len(s) + 1) /\ Append(s, x)[Len(s) + 1] = x
           /\ \A i \in 1..Len(s) : Append(s, x)[i] = s[i]
<1> DEFINE R == {s[i] : i \in DOMAIN s}
           S == R \cup {x}
           t == Append(s, x)
<1>1. s \in Seq(R) /\ Len(s) \in Nat /\ DOMAIN s = 1..Len(s)
  BY LenProperties DEF IsSequence
<1>2. s \in Seq(S)
  <2>1. s \in [1..Len(s) -> S]
    BY <1>1, ElementOfSeq
  <2>2. QED BY <1>1, <2>1, FunctionIsSeq
<1> HIDE DEF S, R
<1>3. x \in S
  BY DEF S
<1>4. /\ t \in Seq(S) /\ Len(t) = Len(s) + 1 /\ t[Len(s) + 1] = x
      /\ \A i \in 1..Len(s) : t[i] = s[i]
  BY <1>2, <1>3, AppendProperties
<1>5. DOMAIN t = 1..(Len(s) + 1) /\ t \in [1..Len(t) -> S]
  BY <1>4, LenProperties
<1> HIDE DEF t
<1>6. t \in [1..Len(t) -> {t[i] : i \in DOMAIN t}]
  BY <1>4, <1>5
<1>7. Len(t) \in Nat
  BY <1>1, <1>4
<1>8. IsSequence(t)
  BY <1>6, <1>7, FunctionIsSeq DEF IsSequence
<1>9. QED BY <1>1, <1>4, <1>5, <1>8 DEF t

-----------------------------------------------------------------------------
(* Hops.                                                                   *)

\* A hop reads back from the accounts: groups of five behind the fixed ones,
\* and fewer than five remaining accounts do not make a hop.
LEMMA HopsRead ==
    ASSUME NEW rt, NEW n \in Nat, Len(rt) = n, NEW extra \in 0..(AccountsPerHop - 1)
    PROVE  HopsOf(AccountsOf(rt, extra))
             = [i \in 1..n |-> [base |-> Base(rt[i]), quote |-> Quote(rt[i]),
                                pool |-> PoolOf(rt[i])]]
<1> DEFINE acc  == AccountsOf(rt, extra)
           m    == 16 + 5 * n + extra
           rest == SubSeq(acc, 17, m)
           S    == {acc[j] : j \in 1..m}
<1>1. n \in Int /\ n >= 0 /\ extra \in 0..4 /\ m \in Nat /\ m >= 16 /\ m - 16 = 5 * n + extra
  BY DEF AccountsPerHop
<1>2. DOMAIN acc = 1..m
  BY DEF AccountsOf, FixedAccounts, AccountsPerHop
<1>3. acc \in [1..m -> S]
  <2>1. acc = [j \in 1..m |-> acc[j]]
    BY DEF AccountsOf, FixedAccounts, AccountsPerHop
  <2>2. QED BY <2>1, Zenon
<1>4. ASSUME NEW i \in 1..n
      PROVE  /\ acc[16 + 5 * (i - 1) + 1] = Base(rt[i])
             /\ acc[16 + 5 * (i - 1) + 2] = Quote(rt[i])
             /\ acc[16 + 5 * (i - 1) + 3] = PoolOf(rt[i])
  <2>1. ASSUME NEW d \in 0..2
        PROVE  acc[16 + 5 * (i - 1) + d + 1]
                 = <<Base(rt[i]), Quote(rt[i]), PoolOf(rt[i]), "base_vault", "quote_vault">>[d + 1]
    <3> DEFINE j  == 16 + 5 * (i - 1) + d + 1
               at == j - 16 - 1
    <3>1. i \in Int /\ d \in Int /\ j \in 1..m /\ at = 5 * (i - 1) + d /\ at >= 0 /\ at < 5 * n
      BY <1>1
    <3>2. at \div 5 = i - 1 /\ at % 5 = d
      BY <3>1
    <3>3. acc[j] = LET r == rt[at \div 5 + 1]
                   IN IF at < 0 THEN "fixed"
                      ELSE IF at >= 5 * n THEN "remaining"
                      ELSE <<Base(r), Quote(r), PoolOf(r), "base_vault", "quote_vault">>[(at % 5) + 1]
      BY <3>1 DEF AccountsOf, FixedAccounts, AccountsPerHop
    <3>4. (at \div 5) + 1 = i /\ ~(at < 0) /\ ~(at >= 5 * n)
      BY <3>1, <3>2
    <3>5. QED
      <4> HIDE DEF j, at
      <4>1. acc[j] = <<Base(rt[i]), Quote(rt[i]), PoolOf(rt[i]), "base_vault",
                       "quote_vault">>[d + 1]
        BY <3>2, <3>3, <3>4
      <4>2. QED BY <4>1 DEF j
  <2>2. 0 \in 0..2 /\ 1 \in 0..2 /\ 2 \in 0..2
    OBVIOUS
  <2> HIDE DEF acc
  <2>3. acc[16 + 5 * (i - 1) + 0 + 1] = Base(rt[i])
    BY <2>1, <2>2
  <2>4. acc[16 + 5 * (i - 1) + 1 + 1] = Quote(rt[i])
    BY <2>1, <2>2
  <2>5. acc[16 + 5 * (i - 1) + 2 + 1] = PoolOf(rt[i])
    BY <2>1, <2>2
  <2>6. QED BY <1>1, <2>3, <2>4, <2>5
<1> HIDE DEF acc
<1>5. acc \in Seq(S) /\ Len(acc) = m
  BY <1>1, <1>3, FunctionIsSeq
<1> HIDE DEF S, m
<1>6. Len(rest) = m - 16 /\ \A k \in 1..(m - 16) : rest[k] = acc[16 + k]
  <2>1. /\ Len(rest) = m - 17 + 1
        /\ \A k \in 1..(m - 17 + 1) : rest[k] = acc[17 + k - 1]
    BY <1>1, <1>5, SubSeqProperties DEF m
  <2>2. QED BY <1>1, <2>1
<1>7. Len(rest) \div 5 = n
  BY <1>1, <1>6
<1>8. HopsOf(acc) = [i \in 1..(Len(rest) \div 5) |->
                       LET at == 5 * (i - 1)
                       IN [base |-> rest[at + 1], quote |-> rest[at + 2], pool |-> rest[at + 3]]]
  BY <1>5 DEF HopsOf, FixedAccounts, AccountsPerHop
<1>9. ASSUME NEW i \in 1..n
      PROVE  /\ rest[5 * (i - 1) + 1] = Base(rt[i])
             /\ rest[5 * (i - 1) + 2] = Quote(rt[i])
             /\ rest[5 * (i - 1) + 3] = PoolOf(rt[i])
  <2>1. i \in Int /\ 5 * (i - 1) \in Int /\ 5 * (i - 1) >= 0 /\ 5 * (i - 1) + 5 <= m - 16
    BY <1>1
  <2>2. rest[5 * (i - 1) + 1] = acc[16 + (5 * (i - 1) + 1)]
    BY <1>1, <1>6, <2>1
  <2>3. rest[5 * (i - 1) + 2] = acc[16 + (5 * (i - 1) + 2)]
    BY <1>1, <1>6, <2>1
  <2>4. rest[5 * (i - 1) + 3] = acc[16 + (5 * (i - 1) + 3)]
    BY <1>1, <1>6, <2>1
  <2> HIDE DEF rest
  <2>5. QED BY <1>4, <2>1, <2>2, <2>3, <2>4
<1> HIDE DEF rest
<1>10. QED BY <1>7, <1>8, <1>9 DEF acc

\* The mints of a hop.
LEMMA HopMints ==
    ASSUME NEW r \in Hop
    PROVE  /\ Base(r) \in Mints /\ Quote(r) \in Mints
           /\ {Base(r), Quote(r)} = {r.in, r.out}
           /\ r.in # r.out => Base(r) # Quote(r)
           /\ r.buy => Base(r) = r.out /\ Quote(r) = r.in
           /\ ~r.buy => Base(r) = r.in /\ Quote(r) = r.out
BY DEF Hop, Base, Quote

\* Two hops on one pool trade the same two mints; no hop is on the pool of
\* the foreign event; only a canonical pool is eligible.
LEMMA Pools ==
    ASSUME NEW r \in Hop, NEW s \in Hop
    PROVE  /\ PoolOf(r) = PoolOf(s) => Base(r) = Base(s) /\ Quote(r) = Quote(s)
           /\ PoolOf(r) # <<"unknown">>
           /\ PoolOf(r) = Canonical(Base(r), Quote(r)) <=> r.kind \in {"canonical", "cut"}
<1>1. r.kind \in HopKinds /\ s.kind \in HopKinds
  BY DEF Hop
<1>2. /\ \E k \in {"pool", "side", "curve"} : PoolOf(r) = <<k, Base(r), Quote(r)>>
      /\ \E k \in {"pool", "side", "curve"} : PoolOf(s) = <<k, Base(s), Quote(s)>>
  BY <1>1 DEF HopKinds, PoolOf, Canonical
<1>3. PoolOf(r) = PoolOf(s) => Base(r) = Base(s) /\ Quote(r) = Quote(s)
  BY <1>2
<1>4. PoolOf(r) # <<"unknown">>
  BY <1>2
<1>5. PoolOf(r) = Canonical(Base(r), Quote(r)) <=> r.kind \in {"canonical", "cut"}
  BY <1>1 DEF HopKinds, PoolOf, Canonical
<1>6. QED BY <1>3, <1>4, <1>5

-----------------------------------------------------------------------------
(* Lists of fills.                                                         *)

LEMMA ListsNone ==
    ASSUME NEW fill
    PROVE  Lists(<<>>, {}, fill)
<1> DEFINE at == [k \in {} |-> k]
<1>1. DOMAIN <<>> = {} /\ at \in [{} -> DOMAIN fill] /\ DOMAIN at = {}
  OBVIOUS
<1>2. Enumerates(at, {})
  BY <1>1 DEF Enumerates
<1>3. QED BY <1>1, <1>2 DEF Lists

\* The fill of a hop behind the ones listed.
LEMMA ListsAppend ==
    ASSUME NEW fs, IsSequence(fs), NEW S, NEW fill, DOMAIN fill \subseteq Int,
           Lists(fs, S, fill), NEW i \in DOMAIN fill, \A j \in S : j < i
    PROVE  Lists(Append(fs, fill[i]), S \cup {i}, fill)
<1>1. PICK at \in [DOMAIN fs -> DOMAIN fill] :
        Enumerates(at, S) /\ \A k \in DOMAIN fs : fs[k] = fill[at[k]]
  BY DEF Lists
<1> DEFINE n  == Len(fs)
           gs == Append(fs, fill[i])
           to == [k \in 1..(n + 1) |-> IF k = n + 1 THEN i ELSE at[k]]
<1>2. /\ n \in Nat /\ DOMAIN fs = 1..n /\ DOMAIN gs = 1..(n + 1) /\ gs[n + 1] = fill[i]
      /\ \A k \in 1..n : gs[k] = fs[k]
  BY AppendAny
<1> HIDE DEF n, gs
<1>3. DOMAIN at = 1..n /\ \A k \in 1..n : at[k] \in DOMAIN fill /\ at[k] \in S /\ at[k] < i
  BY <1>1, <1>2 DEF Enumerates
<1>4. to \in [DOMAIN gs -> DOMAIN fill] /\ DOMAIN to = 1..(n + 1)
  BY <1>2, <1>3
<1>5. to[n + 1] = i /\ \A k \in 1..n : to[k] = at[k]
  BY <1>2
<1>6. ASSUME NEW k \in 1..(n + 1) PROVE k = n + 1 \/ k \in 1..n
  BY <1>2
<1> HIDE DEF to
<1>7. ASSUME NEW k \in DOMAIN to, NEW l \in DOMAIN to, k < l PROVE to[k] < to[l]
  <2>1. k \in 1..n
    BY <1>2, <1>4, <1>7
  <2>2. CASE l = n + 1
    BY <1>3, <1>5, <2>1, <2>2
  <2>3. CASE l \in 1..n
    BY <1>1, <1>3, <1>5, <1>7, <2>1, <2>3 DEF Enumerates
  <2>4. QED BY <1>4, <1>6, <2>2, <2>3
<1>8. {to[k] : k \in DOMAIN to} = S \cup {i}
  <2>1. ASSUME NEW k \in DOMAIN to PROVE to[k] \in S \cup {i}
    BY <1>3, <1>4, <1>5, <1>6
  <2>2. ASSUME NEW j \in S PROVE \E k \in DOMAIN to : to[k] = j
    <3>1. PICK k \in 1..n : at[k] = j
      BY <1>1, <1>3 DEF Enumerates
    <3>2. k \in 1..(n + 1)
      BY <1>2
    <3>3. QED BY <1>4, <1>5, <3>1, <3>2
  <2>3. n + 1 \in DOMAIN to
    BY <1>2, <1>4
  <2>4. QED BY <1>5, <2>1, <2>2, <2>3
<1>9. ASSUME NEW k \in DOMAIN gs PROVE gs[k] = fill[to[k]]
  BY <1>1, <1>2, <1>5, <1>6
<1>10. QED
  BY <1>4, <1>7, <1>8, <1>9 DEF Lists, Enumerates, gs

-----------------------------------------------------------------------------
(* Events.                                                                 *)

\* The events a hop adds: a pool hop's end with its trade, the only one.
LEMMA OneTrade ==
    ASSUME NEW r, NEW i \in Nat \ {0}
    PROVE  LET h == HopEvents(r, i) IN
           /\ h \in Seq([kind: {"note", "foreign", "trade"}, hop: 1..i])
           /\ \A j \in 1..Len(h) : h[j].kind = "trade" =>
                 j = Len(h) /\ h[j].hop = i /\ r.kind # "curve"
           /\ r.kind # "curve" => Len(h) >= 1 /\ h[Len(h)].kind = "trade" /\ h[Len(h)].hop = i
<1> DEFINE E == [kind: {"note", "foreign", "trade"}, hop: 1..i]
           before == IF i = 1 THEN <<[kind |-> "note", hop |-> 1], [kind |-> "foreign", hop |-> 1]>>
                     ELSE <<>>
           own == IF r.kind = "curve" THEN <<>> ELSE <<[kind |-> "trade", hop |-> i]>>
           h == before \o own
<1>1. /\ [kind |-> "note", hop |-> 1] \in E /\ [kind |-> "foreign", hop |-> 1] \in E
      /\ [kind |-> "trade", hop |-> i] \in E
  OBVIOUS
<1> HIDE DEF E
<1>2. /\ before \in Seq(E) /\ Len(before) \in {0, 2}
      /\ \A j \in 1..Len(before) : before[j].kind # "trade"
  BY <1>1
<1>3. /\ own \in Seq(E)
      /\ r.kind = "curve" => Len(own) = 0
      /\ r.kind # "curve" => Len(own) = 1 /\ own[1] = [kind |-> "trade", hop |-> i]
  BY <1>1
<1>4. HopEvents(r, i) = h
  BY DEF HopEvents
<1> HIDE DEF before, own
<1>5. /\ h \in Seq(E) /\ Len(h) = Len(before) + Len(own)
      /\ \A j \in 1..Len(h) : h[j] = IF j <= Len(before) THEN before[j] ELSE own[j - Len(before)]
  BY <1>2, <1>3, ConcatProperties
<1> HIDE DEF h
<1>6. Len(before) \in Nat /\ Len(own) \in {0, 1}
  BY <1>2, <1>3
<1>7. ASSUME NEW j \in 1..Len(h), h[j].kind = "trade"
      PROVE  j = Len(h) /\ h[j].hop = i /\ r.kind # "curve"
  <2>1. ~(j <= Len(before))
    BY <1>2, <1>5, <1>6, <1>7
  <2>2. r.kind # "curve" /\ j = Len(before) + 1
    BY <1>3, <1>5, <1>6, <2>1
  <2>3. h[j] = own[1]
    BY <1>5, <1>6, <2>1, <2>2
  <2>4. QED BY <1>3, <1>5, <2>2, <2>3
<1>8. ASSUME r.kind # "curve"
      PROVE  Len(h) >= 1 /\ h[Len(h)].kind = "trade" /\ h[Len(h)].hop = i
  <2>1. Len(h) = Len(before) + 1 /\ h[Len(h)] = own[1]
    BY <1>3, <1>5, <1>6, <1>8
  <2>2. QED BY <1>3, <1>6, <1>8, <2>1
<1>9. QED BY <1>4, <1>5, <1>7, <1>8 DEF E

\* A hop added to a route.
LEMMA EventsAdded ==
    ASSUME NEW rt \in Seq(Hop), NEW es, EventsFrom(es, rt, 1), NEW r \in Hop
    PROVE  EventsFrom(es \o HopEvents(r, Len(rt) + 1), Append(rt, r), 1)
<1> DEFINE n  == Len(rt)
           h  == HopEvents(r, n + 1)
           ru == Append(rt, r)
           E  == [kind: {"note", "foreign", "trade"}, hop: 1..(n + 1)]
           m  == Len(es)
           fs == es \o h
<1>1. /\ n \in Nat /\ DOMAIN rt = 1..n
      /\ ru \in Seq(Hop) /\ Len(ru) = n + 1 /\ DOMAIN ru = 1..(n + 1) /\ ru[n + 1] = r
      /\ \A i \in 1..n : ru[i] = rt[i]
  BY LenProperties, AppendProperties
<1>2. /\ h \in Seq(E)
      /\ \A j \in 1..Len(h) : h[j].kind = "trade" =>
            j = Len(h) /\ h[j].hop = n + 1 /\ r.kind # "curve"
      /\ r.kind # "curve" => Len(h) >= 1 /\ h[Len(h)].kind = "trade" /\ h[Len(h)].hop = n + 1
  BY <1>1, OneTrade
<1>3. es \in Seq(Event(rt)) /\ m \in Nat /\ DOMAIN es = 1..m
  BY LenProperties DEF EventsFrom
<1>4. ASSUME NEW j \in 1..m PROVE es[j] \in Event(rt) /\ es[j] \in E /\ es[j].hop \in 1..n
  <2>1. es[j] \in Event(rt)
    BY <1>3, ElementOfSeq
  <2>2. QED BY <1>1, <2>1 DEF Event
<1> HIDE DEF h, ru, E
<1>5. es \in Seq(E) /\ Len(h) \in Nat
  <2>1. es \in [1..m -> E]
    BY <1>3, <1>4, LenProperties
  <2>2. QED BY <1>2, <1>3, <2>1, FunctionIsSeq, LenProperties
<1> HIDE DEF m
<1>6. /\ fs \in Seq(E) /\ Len(fs) = m + Len(h) /\ DOMAIN fs = 1..(m + Len(h))
      /\ \A j \in 1..(m + Len(h)) : fs[j] = IF j <= m THEN es[j] ELSE h[j - m]
  BY <1>2, <1>5, ConcatProperties, LenProperties DEF m
<1> HIDE DEF fs, n
<1>7. /\ \A j \in 1..m : es[j].kind = "trade" => es[j].hop >= 1 /\ rt[es[j].hop].kind # "curve"
      /\ \A j, l \in 1..m : j < l /\ es[j].kind = "trade" /\ es[l].kind = "trade" =>
            es[j].hop < es[l].hop
      /\ \A i \in 1..n : rt[i].kind # "curve" =>
            \E j \in 1..m : es[j].kind = "trade" /\ es[j].hop = i
  BY <1>3 DEF EventsFrom, n
<1>8. ASSUME NEW j \in 1..(m + Len(h)), fs[j].kind = "trade"
      PROVE  \/ j \in 1..m /\ fs[j] = es[j] /\ fs[j].hop \in 1..n
             \/ j = m + Len(h) /\ j > m /\ fs[j].hop = n + 1 /\ r.kind # "curve"
  <2>1. CASE j <= m
    BY <1>3, <1>4, <1>6, <2>1
  <2>2. CASE j > m
    <3>1. j - m \in 1..Len(h) /\ fs[j] = h[j - m]
      BY <1>3, <1>5, <1>6, <2>2
    <3>2. j - m = Len(h) /\ h[j - m].hop = n + 1 /\ r.kind # "curve"
      BY <1>2, <1>8, <3>1
    <3>3. QED BY <1>3, <1>5, <2>2, <3>1, <3>2
  <2>3. QED BY <1>3, <2>1, <2>2
<1>9. ASSUME NEW j \in 1..(m + Len(h)), fs[j].kind = "trade"
      PROVE  fs[j].hop >= 1 /\ ru[fs[j].hop].kind # "curve"
  <2>1. CASE j \in 1..m /\ fs[j] = es[j] /\ fs[j].hop \in 1..n
    BY <1>1, <1>7, <1>9, <2>1
  <2>2. CASE fs[j].hop = n + 1 /\ r.kind # "curve"
    BY <1>1, <2>2
  <2>3. QED BY <1>8, <1>9, <2>1, <2>2
<1>10. ASSUME NEW j \in 1..(m + Len(h)), NEW l \in 1..(m + Len(h)), j < l,
              fs[j].kind = "trade", fs[l].kind = "trade"
       PROVE  fs[j].hop < fs[l].hop
  <2>1. j \in 1..m /\ fs[j] = es[j] /\ fs[j].hop \in 1..n
    BY <1>3, <1>5, <1>8, <1>10
  <2>2. CASE l \in 1..m /\ fs[l] = es[l]
    BY <1>7, <1>10, <2>1, <2>2
  <2>3. CASE fs[l].hop = n + 1
    BY <1>1, <2>1, <2>3
  <2>4. QED BY <1>8, <1>10, <2>2, <2>3
<1>11. ASSUME NEW i \in 1..(n + 1), ru[i].kind # "curve"
       PROVE  \E j \in 1..(m + Len(h)) : fs[j].kind = "trade" /\ fs[j].hop = i
  <2>1. CASE i = n + 1
    <3>1. r.kind # "curve"
      BY <1>1, <1>11, <2>1
    <3>2. Len(h) >= 1 /\ h[Len(h)].kind = "trade" /\ h[Len(h)].hop = n + 1
      BY <1>2, <3>1
    <3>3. m + Len(h) \in 1..(m + Len(h)) /\ fs[m + Len(h)] = h[Len(h)]
      BY <1>3, <1>5, <1>6, <3>2
    <3>4. QED BY <2>1, <3>2, <3>3
  <2>2. CASE i \in 1..n
    <3>1. PICK j \in 1..m : es[j].kind = "trade" /\ es[j].hop = i
      BY <1>1, <1>7, <1>11, <2>2
    <3>2. j \in 1..(m + Len(h)) /\ fs[j] = es[j]
      BY <1>3, <1>5, <1>6
    <3>3. QED BY <3>1, <3>2
  <2>3. QED BY <1>1, <2>1, <2>2
<1>12. Event(ru) = E
  BY <1>1 DEF Event, E
<1>13. EventsFrom(fs, ru, 1)
  BY <1>1, <1>6, <1>9, <1>10, <1>11, <1>12 DEF EventsFrom
<1>14. QED BY <1>13 DEF fs, ru, h, n

\* An event looked at: behind a trade, the events of the hops after it are
\* left, and the hops passed over were curve hops.
LEMMA EventsLeft ==
    ASSUME NEW rt \in Seq(Hop), NEW k \in Nat, NEW es, EventsFrom(es, rt, k), es # <<>>
    PROVE  LET e == Head(es) IN
           /\ e \in Event(rt)
           /\ e.kind # "trade" => EventsFrom(Tail(es), rt, k)
           /\ e.kind = "trade" =>
                 /\ e.hop >= k /\ rt[e.hop].kind # "curve"
                 /\ \A i \in k..(e.hop - 1) : rt[i].kind = "curve"
                 /\ EventsFrom(Tail(es), rt, e.hop + 1)
<1> DEFINE e == Head(es)
           ts == Tail(es)
           m  == Len(es)
<1>1. /\ es \in Seq(Event(rt)) /\ m \in Nat \ {0} /\ DOMAIN es = 1..m /\ e = es[1]
      /\ Len(rt) \in Nat /\ DOMAIN rt = 1..Len(rt)
  BY LenProperties, EmptySeq DEF EventsFrom
<1>2. /\ e \in Event(rt) /\ ts \in Seq(Event(rt)) /\ Len(ts) = m - 1 /\ DOMAIN ts = 1..(m - 1)
      /\ \A j \in 1..(m - 1) : ts[j] = es[j + 1]
  BY <1>1, HeadTailProperties, LenProperties
<1>3. \A j \in 1..m : es[j] \in Event(rt) /\ es[j].hop \in 1..Len(rt)
  <2>1. \A j \in 1..m : es[j] \in Event(rt)
    BY <1>1, ElementOfSeq
  <2>2. QED BY <1>1, <2>1 DEF Event
<1> HIDE DEF m, e, ts
<1>4. /\ \A j \in 1..m : es[j].kind = "trade" => es[j].hop >= k /\ rt[es[j].hop].kind # "curve"
      /\ \A j, l \in 1..m : j < l /\ es[j].kind = "trade" /\ es[l].kind = "trade" =>
            es[j].hop < es[l].hop
      /\ \A i \in k..Len(rt) : rt[i].kind # "curve" =>
            \E j \in 1..m : es[j].kind = "trade" /\ es[j].hop = i
  BY <1>1 DEF EventsFrom
<1>5. \A j, l \in 1..(m - 1) : j < l /\ ts[j].kind = "trade" /\ ts[l].kind = "trade" =>
            ts[j].hop < ts[l].hop
  <2> SUFFICES ASSUME NEW j \in 1..(m - 1), NEW l \in 1..(m - 1), j < l, ts[j].kind = "trade",
                      ts[l].kind = "trade"
               PROVE  ts[j].hop < ts[l].hop
    OBVIOUS
  <2>1. j + 1 \in 1..m /\ l + 1 \in 1..m /\ j + 1 < l + 1
    BY <1>1
  <2>2. QED BY <1>2, <1>4, <2>1
<1>6. ASSUME NEW j \in 1..m, j # 1 PROVE j - 1 \in 1..(m - 1) /\ ts[j - 1] = es[j]
  <2>1. j - 1 \in 1..(m - 1) /\ (j - 1) + 1 = j
    BY <1>1, <1>6
  <2>2. QED BY <1>2, <2>1
<1>7. ASSUME e.kind # "trade" PROVE EventsFrom(ts, rt, k)
  <2>1. ASSUME NEW j \in 1..(m - 1), ts[j].kind = "trade"
        PROVE  ts[j].hop >= k /\ rt[ts[j].hop].kind # "curve"
    <3>1. j + 1 \in 1..m
      BY <1>1
    <3>2. QED BY <1>2, <1>4, <2>1, <3>1
  <2>2. ASSUME NEW i \in k..Len(rt), rt[i].kind # "curve"
        PROVE  \E j \in 1..(m - 1) : ts[j].kind = "trade" /\ ts[j].hop = i
    <3>1. PICK j \in 1..m : es[j].kind = "trade" /\ es[j].hop = i
      BY <1>4, <2>2
    <3>2. j # 1
      BY <1>1, <1>7, <3>1
    <3>3. QED BY <1>6, <3>1, <3>2
  <2>3. QED BY <1>2, <1>5, <2>1, <2>2 DEF EventsFrom
<1>8. ASSUME e.kind = "trade"
      PROVE  /\ e.hop >= k /\ rt[e.hop].kind # "curve"
             /\ \A i \in k..(e.hop - 1) : rt[i].kind = "curve"
             /\ EventsFrom(ts, rt, e.hop + 1)
  <2>1. 1 \in 1..m /\ e.hop \in 1..Len(rt) /\ e.hop >= k /\ rt[e.hop].kind # "curve"
    BY <1>1, <1>3, <1>4, <1>8
  <2>2. ASSUME NEW j \in 1..(m - 1), ts[j].kind = "trade"
        PROVE  ts[j].hop >= e.hop + 1 /\ rt[ts[j].hop].kind # "curve"
    <3>1. j + 1 \in 1..m /\ 1 < j + 1 /\ ts[j] = es[j + 1]
      BY <1>1, <1>2
    <3>2. e.hop < es[j + 1].hop /\ es[j + 1].hop \in 1..Len(rt) /\ rt[es[j + 1].hop].kind # "curve"
      BY <1>1, <1>3, <1>4, <1>8, <2>1, <2>2, <3>1
    <3>3. QED BY <2>1, <3>1, <3>2
  <2>3. ASSUME NEW i \in k..(e.hop - 1) PROVE rt[i].kind = "curve"
    <3>1. i \in k..Len(rt) /\ i < e.hop
      BY <1>1, <2>1
    <3>2. SUFFICES ASSUME rt[i].kind # "curve" PROVE FALSE
      OBVIOUS
    <3>3. PICK j \in 1..m : es[j].kind = "trade" /\ es[j].hop = i
      BY <1>4, <3>1, <3>2
    <3>4. CASE j = 1
      BY <1>1, <2>1, <3>1, <3>3, <3>4
    <3>5. CASE j # 1
      <4>1. 1 < j
        BY <1>1, <3>5
      <4>2. e.hop < i
        BY <1>1, <1>4, <1>8, <2>1, <3>3, <4>1
      <4>3. QED BY <1>1, <2>1, <3>1, <4>2
    <3>6. QED BY <3>4, <3>5
  <2>4. ASSUME NEW i \in (e.hop + 1)..Len(rt), rt[i].kind # "curve"
        PROVE  \E j \in 1..(m - 1) : ts[j].kind = "trade" /\ ts[j].hop = i
    <3>1. i \in k..Len(rt) /\ i # e.hop
      BY <1>1, <2>1
    <3>2. PICK j \in 1..m : es[j].kind = "trade" /\ es[j].hop = i
      BY <1>4, <2>4, <3>1
    <3>3. j # 1
      BY <1>1, <3>1, <3>2
    <3>4. QED BY <1>6, <3>2, <3>3
  <2>5. EventsFrom(ts, rt, e.hop + 1)
    BY <1>2, <1>5, <2>2, <2>4 DEF EventsFrom
  <2>6. QED BY <2>1, <2>3, <2>5
<1>9. QED BY <1>2, <1>7, <1>8 DEF e, ts

\* The hops of the route.
LEMMA RouteFacts ==
    ASSUME RouteInv
    PROVE  /\ route \in Seq(Hop) /\ Len(route) \in Nat /\ DOMAIN route = 1..Len(route)
           /\ Len(route) <= MaxHops /\ MaxHops \in Nat \ {0}
           /\ route # <<>> => Len(route) >= 1
           /\ \A i \in 1..Len(route) :
                 route[i] \in Hop /\ route[i].in # route[i].out /\ route[i].buy \in BOOLEAN
<1>1. route \in Seq(Hop) /\ Len(route) <= MaxHops /\ MaxHops \in Nat \ {0}
  BY RouteAssumption DEF RouteInv
<1>2. Len(route) \in Nat /\ DOMAIN route = 1..Len(route)
  BY <1>1, LenProperties
<1>3. route # <<>> => Len(route) >= 1
  <2>1. \A s \in Seq(Hop) : s # <<>> => Len(s) \in Nat \ {0}
    BY EmptySeq
  <2>2. QED BY <1>1, <2>1
<1>4. \A i \in 1..Len(route) : route[i] \in Hop
  BY <1>1, ElementOfSeq
<1>5. \A i \in 1..Len(route) : route[i].in # route[i].out
  BY <1>2 DEF RouteInv
<1>6. \A i \in 1..Len(route) : route[i].buy \in BOOLEAN
  BY <1>4 DEF Hop
<1>7. QED BY <1>1, <1>2, <1>3, <1>4, <1>5, <1>6

\* The payload of an event, as the handler reads it.
LEMMA EventsRead ==
    ASSUME route \in Seq(Hop), Len(route) <= MaxHops, NEW e \in Event(route)
    PROVE  LET p == DataOf(e)
               r == route[e.hop]
               m == HopMoves[e.hop]
           IN /\ e.kind = "note" => ~IsTrade(p)
              /\ e.kind = "foreign" => EventPool(p) = {<<"unknown">>}
              /\ e.kind = "trade" =>
                   /\ IsTrade(p) /\ (p.disc = "buy") = r.buy
                   /\ r.kind = "cut" => EventPool(p) = {}
                   /\ r.kind # "cut" =>
                        /\ EventPool(p) = {PoolOf(r)}
                        /\ EventAmounts(p, r.buy)
                             = {Amounts(m.token, m.volume, m.base, Priced(m))}
<1> DEFINE p == DataOf(e)
           r == route[e.hop]
           m == HopMoves[e.hop]
<1>1. e.hop \in DOMAIN route /\ e.hop \in 1..MaxHops /\ r \in Hop /\ r.buy \in BOOLEAN
  <2>1. Len(route) \in Nat /\ DOMAIN route = 1..Len(route) /\ e.hop \in DOMAIN route
    BY LenProperties DEF Event
  <2>2. r \in Hop
    BY <2>1, ElementOfSeq
  <2>3. QED BY <2>1, <2>2, RouteAssumption DEF Hop
<1>2. m \in Moves /\ ShortName \in Nat
  BY <1>1, RouteAssumption DEF ShortName
<1> HIDE DEF m, r
<1>3. ASSUME e.kind = "note" PROVE ~IsTrade(p)
  BY <1>3 DEF DataOf, IsTrade
<1>4. ASSUME e.kind = "foreign" PROVE EventPool(p) = {<<"unknown">>}
  <2> DEFINE t == Told(m, <<"unknown">>, ShortName)
  <2>1. p = BuyPayload(t, "new")
    BY <1>4 DEF DataOf, m
  <2>2. t.name \in Nat /\ t.pool = <<"unknown">>
    BY <1>2 DEF Told
  <2> HIDE DEF p, t
  <2>3. EventPool(BuyPayload(t, "new")) = {t.pool}
    BY <2>2, BuyReads
  <2>4. QED BY <2>1, <2>2, <2>3
<1>5. ASSUME e.kind = "trade"
      PROVE  /\ IsTrade(p) /\ (p.disc = "buy") = r.buy
             /\ r.kind = "cut" => EventPool(p) = {}
             /\ r.kind # "cut" =>
                  /\ EventPool(p) = {PoolOf(r)}
                  /\ EventAmounts(p, r.buy) = {Amounts(m.token, m.volume, m.base, Priced(m))}
  <2> DEFINE t == Told(m, PoolOf(r), ShortName)
             v == IF r.kind = "cut" THEN "cut" ELSE "new"
  <2>1. /\ t.name = ShortName /\ t.pool = PoolOf(r) /\ t.token = m.token /\ t.volume = m.volume
        /\ t.base = m.base /\ t.raw = m.raw /\ t.virtual = m.virtual
    BY DEF Told
  <2>2. p = Payload(IF r.buy THEN "buy" ELSE "sell", t, v)
    BY <1>5 DEF DataOf, m, r
  <2> HIDE DEF p, t
  <2>3. AmountsRead(t, EffectiveQuote(t.raw, {t.virtual}))
          = {Amounts(m.token, m.volume, m.base, Priced(m))}
    BY <1>2, <2>1, ClampedIsPriced DEF AmountsRead
  <2>4. CASE r.buy = TRUE
    <3>1. p = BuyPayload(t, v)
      BY <2>2, <2>4 DEF Payload
    <3>2. p.disc = "buy" /\ IsTrade(p)
      BY <3>1 DEF BuyPayload, IsTrade
    <3> HIDE DEF v
    <3>3. r.kind = "cut" => EventPool(p) = {}
      BY <1>2, <2>1, <3>1, BuyReads DEF v
    <3>4. r.kind # "cut" => EventPool(p) = {PoolOf(r)}
      BY <1>2, <2>1, <3>1, BuyReads DEF v
    <3>5. r.kind # "cut" =>
            EventAmounts(p, TRUE) = AmountsRead(t, EffectiveQuote(t.raw, {t.virtual}))
      BY <1>2, <2>1, <3>1, BuyReads DEF v
    <3>6. QED BY <2>3, <2>4, <3>2, <3>3, <3>4, <3>5
  <2>5. CASE r.buy = FALSE
    <3>1. p = SellPayload(t, v)
      BY <2>2, <2>5 DEF Payload
    <3>2. p.disc = "sell" /\ IsTrade(p)
      BY <3>1 DEF SellPayload, IsTrade
    <3> HIDE DEF v
    <3>3. r.kind = "cut" => EventPool(p) = {}
      BY <3>1, SellReads DEF v
    <3>4. r.kind # "cut" => EventPool(p) = {PoolOf(r)}
      BY <2>1, <3>1, SellReads DEF v
    <3>5. r.kind # "cut" =>
            EventAmounts(p, FALSE) = AmountsRead(t, EffectiveQuote(t.raw, {t.virtual}))
      BY <3>1, SellReads DEF v
    <3>6. QED BY <2>3, <2>5, <3>2, <3>3, <3>4, <3>5
  <2>6. QED BY <1>1, <2>4, <2>5
<1>6. QED BY <1>3, <1>4, <1>5 DEF m, r

-----------------------------------------------------------------------------
(* The mint a route spends.                                                *)

\* What the collector sees of a route.
Seen == [i \in 1..Len(route) |-> HopAt(i)]

\* The input is found whenever the row is there or the first two hops tell
\* it, and it is the one the route spends if its hops chain.
LEMMA SpentMint ==
    ASSUME RouteInv, route # <<>>, NEW told \in BOOLEAN
    PROVE  LET m == InputMint(Seen, IF told THEN route[1].in ELSE NoMint) IN
           /\ m \in Mints \cup {NoMint}
           /\ m = NoMint => ~(Chains(route) /\ (told \/ ~Ambiguous))
           /\ m # NoMint => (told \/ ~Ambiguous) /\ (Chains(route) => m = route[1].in)
<1> DEFINE n  == Len(route)
           b1 == Base(route[1])
           q1 == Quote(route[1])
           b2 == Base(route[2])
           q2 == Quote(route[2])
           shared(x) == n >= 2 /\ x \in {b2, q2}
           given == IF told THEN route[1].in ELSE NoMint
           m  == InputMint(Seen, given)
<1>1. n \in Nat /\ n >= 1 /\ DOMAIN route = 1..n /\ \A i \in 1..n : route[i] \in Hop /\ route[i].in # route[i].out
  BY RouteFacts
<1>2. /\ {b1, q1} = {route[1].in, route[1].out} /\ b1 # q1 /\ b1 \in Mints /\ q1 \in Mints
      /\ route[1].in \in Mints /\ NoMint \notin Mints
  <2>1. 1 \in 1..n /\ route[1] \in Hop /\ route[1].in # route[1].out
    BY <1>1
  <2>2. QED BY <2>1, HopMints, RouteAssumption DEF Hop
<1>3. ASSUME n >= 2
      PROVE  {b2, q2} = {route[2].in, route[2].out} /\ b2 # q2
  <2>1. 2 \in 1..n /\ route[2] \in Hop /\ route[2].in # route[2].out
    BY <1>1, <1>3
  <2>2. QED BY <2>1, HopMints
<1>4. /\ Len(Seen) = n /\ Seen[1].base = b1 /\ Seen[1].quote = q1
      /\ n >= 2 => Seen[2].base = b2 /\ Seen[2].quote = q2
  <2>1. Len(Seen) = n
    BY <1>1 DEF Seen
  <2>2. Seen[1] = HopAt(1) /\ (n >= 2 => Seen[2] = HopAt(2))
    BY <1>1 DEF Seen
  <2>3. QED BY <2>1, <2>2 DEF HopAt
<1>5. m = CASE shared(b1) /\ ~shared(q1) -> q1
            [] shared(q1) /\ ~shared(b1) -> b1
            [] OTHER -> given
  BY <1>4 DEF InputMint
<1>6. Ambiguous <=> n = 1 \/ {route[1].in, route[1].out} = {route[2].in, route[2].out}
  BY DEF Ambiguous
<1>7. Chains(route) /\ n >= 2 => route[1].out = route[2].in
  BY <1>1 DEF Chains
<1> HIDE DEF n, b1, b2, q1, q2, m
<1>8. CASE shared(b1) /\ ~shared(q1)
  <2>1. m = q1 /\ n >= 2 /\ ~Ambiguous
    <3>1. m = q1 /\ n >= 2
      BY <1>5, <1>8
    <3>2. n # 1 /\ {b1, q1} # {b2, q2}
      BY <1>1, <1>8, <3>1
    <3>3. QED BY <1>2, <1>3, <1>6, <3>1, <3>2
  <2>2. Chains(route) => m = route[1].in
    BY <1>2, <1>3, <1>7, <1>8, <2>1
  <2>3. QED BY <1>2, <2>1, <2>2 DEF m
<1>9. CASE shared(q1) /\ ~shared(b1)
  <2>1. m = b1 /\ n >= 2 /\ ~Ambiguous
    <3>1. m = b1 /\ n >= 2
      BY <1>5, <1>9
    <3>2. n # 1 /\ {b1, q1} # {b2, q2}
      BY <1>1, <1>9, <3>1
    <3>3. QED BY <1>2, <1>3, <1>6, <3>1, <3>2
  <2>2. Chains(route) => m = route[1].in
    BY <1>2, <1>3, <1>7, <1>9, <2>1
  <2>3. QED BY <1>2, <2>1, <2>2 DEF m
<1>10. CASE shared(b1) <=> shared(q1)
  <2>1. m = given
    BY <1>5, <1>10
  <2>2. Chains(route) => Ambiguous
    <3>1. CASE n = 1
      BY <1>6, <3>1
    <3>2. CASE n >= 2 /\ shared(b1) /\ shared(q1)
      BY <1>2, <1>3, <1>6, <3>2
    <3>3. CASE n >= 2 /\ ~shared(b1) /\ ~shared(q1)
      BY <1>2, <1>3, <1>7, <3>3
    <3>4. QED BY <1>1, <1>10, <3>1, <3>2, <3>3
  <2>3. QED BY <1>2, <2>1, <2>2 DEF m
<1>11. QED BY <1>8, <1>9, <1>10

LEMMA SeenFacts ==
    ASSUME RouteInv
    PROVE  /\ Len(Seen) = Len(route) /\ DOMAIN Seen = 1..Len(route)
           /\ \A i \in 1..Len(route) :
                 /\ Seen[i] = HopAt(i) /\ Seen[i].base = Base(route[i])
                 /\ Seen[i].quote = Quote(route[i]) /\ Seen[i].pool = PoolOf(route[i])
                 /\ Seen[i].base \in Mints /\ Seen[i].quote \in Mints
                 /\ Seen[i].base # Seen[i].quote
<1>1. Len(route) \in Nat /\ \A i \in 1..Len(route) : route[i] \in Hop /\ route[i].in # route[i].out
  BY RouteFacts
<1>2. Len(Seen) = Len(route) /\ DOMAIN Seen = 1..Len(route)
  BY <1>1 DEF Seen
<1>3. ASSUME NEW i \in 1..Len(route)
      PROVE  /\ Seen[i] = HopAt(i) /\ Seen[i].base = Base(route[i])
             /\ Seen[i].quote = Quote(route[i]) /\ Seen[i].pool = PoolOf(route[i])
             /\ Base(route[i]) \in Mints /\ Quote(route[i]) \in Mints
             /\ Base(route[i]) # Quote(route[i])
  <2>1. Seen[i] = HopAt(i)
    BY DEF Seen
  <2>2. /\ Base(route[i]) \in Mints /\ Quote(route[i]) \in Mints
        /\ Base(route[i]) # Quote(route[i])
    BY <1>1, HopMints
  <2>3. QED BY <2>1, <2>2 DEF HopAt
<1>4. QED BY <1>2, <1>3

-----------------------------------------------------------------------------
(* Steps.                                                                  *)

LEMMA InitInv == Init => Inv
<1> SUFFICES ASSUME Init PROVE Inv
  OBVIOUS
<1>1. MaxHops \in Nat \ {0}
  BY RouteAssumption
<1>2. \A S : <<>> \in Seq(S)
  BY EmptySeq
<1>3. /\ pc = "route" /\ single = "none" /\ route = <<>> /\ success \in BOOLEAN /\ success
      /\ row \in BOOLEAN /\ hops = <<>> /\ events = <<>> /\ nextHop = 1 /\ current = NoMint /\ sides = <<>>
      /\ fills = <<>>
  BY DEF Init
<1>4. TypeOK
  <2>1. /\ route \in Seq([in: Mints, out: Mints, buy: BOOLEAN, kind: HopKinds])
        /\ sides \in Seq(BOOLEAN)
    BY <1>2, <1>3
  <2>2. Len(route) <= MaxHops /\ Len(fills) <= MaxHops /\ Len(sides) <= MaxHops
    BY <1>1, <1>3
  <2>3. nextHop \in 1..(MaxHops + 1)
    BY <1>1, <1>3
  <2>4. DOMAIN hops = {} /\ DOMAIN events = {}
    BY <1>3
  <2>5. QED BY <1>3, <2>1, <2>2, <2>3, <2>4 DEF TypeOK
<1>5. RouteInv
  <2>1. route \in Seq(Hop)
    BY <1>2, <1>3
  <2>2. Len(route) <= MaxHops /\ DOMAIN route = {}
    BY <1>1, <1>3
  <2>3. QED BY <1>3, <2>1, <2>2 DEF RouteInv
<1>6. IsSequence(fills)
  BY <1>2, <1>3 DEF IsSequence
<1>7. EventsFrom(events, route, 1)
  <2>1. events \in Seq(Event(route))
    BY <1>2, <1>3
  <2>2. DOMAIN events = {} /\ 1..Len(route) = {}
    BY <1>3
  <2>3. QED BY <2>1, <2>2 DEF EventsFrom
<1>8. QED BY <1>3, <1>4, <1>5, <1>6, <1>7 DEF Inv, InRoute, RouteDone

\* What depends on the route only.
LEMMA SameRoute ==
    ASSUME route' = route
    PROVE  /\ \A i : HopAt(i)' = HopAt(i)
           /\ Seen' = Seen /\ (Ambiguous' <=> Ambiguous)
           /\ row' = row => (Telling' <=> Telling)
           /\ success' = success => Recordable' = Recordable /\
                \A k : RecordableBefore(k)' = RecordableBefore(k)
           /\ hops' = hops => ExecutedFills' = ExecutedFills
           /\ hops' = hops /\ sides' = sides /\ trade' = trade => RequestedFills' = RequestedFills
<1>1. \A i : HopAt(i)' = HopAt(i)
  BY DEF HopAt
<1>2. Seen' = Seen /\ (Ambiguous' <=> Ambiguous)
  BY DEF Seen, HopAt, Ambiguous
<1>3. row' = row => (Telling' <=> Telling)
  BY <1>2 DEF Telling
<1>4. success' = success => Recordable' = Recordable
  BY DEF Recordable
<1>5. success' = success => \A k : RecordableBefore(k)' = RecordableBefore(k)
  BY <1>4 DEF RecordableBefore
<1>6. hops' = hops => ExecutedFills' = ExecutedFills
  BY DEF ExecutedFills, ExecutedFill, HopAt
<1>7. hops' = hops /\ sides' = sides /\ trade' = trade => RequestedFills' = RequestedFills
  BY DEF RequestedFills, RequestedFill
<1>8. QED BY <1>1, <1>2, <1>3, <1>4, <1>5, <1>6, <1>7

\* Nothing is recorded of the hops before the first.
LEMMA NoneBefore ==
    ASSUME RouteInv
    PROVE  RecordableBefore(1) = {} /\ Recordable \subseteq 1..Len(route)
           /\ RecordableBefore(Len(route) + 1) = Recordable
BY RouteFacts DEF RecordableBefore, Recordable

LEMMA AddHopKeeps == Inv /\ AddHop => Inv'
<1> SUFFICES ASSUME Inv, AddHop PROVE Inv'
  OBVIOUS
<1>1. PICK in \in Mints, out \in Mints, buy \in BOOLEAN, kind \in HopKinds :
        LET r == [in |-> in, out |-> out, buy |-> buy, kind |-> kind] IN
        /\ in # out
        /\ route' = Append(route, r)
        /\ events' = events \o HopEvents(r, Len(route) + 1)
  BY Zenon DEF AddHop
<1> DEFINE r == [in |-> in, out |-> out, buy |-> buy, kind |-> kind]
           n == Len(route)
<1>2. r \in Hop /\ r.in # r.out
  BY <1>1 DEF Hop
<1>3. /\ pc = "route" /\ n < MaxHops /\ RouteInv /\ InRoute /\ TypeOK
      /\ route' = Append(route, r) /\ events' = events \o HopEvents(r, n + 1)
  BY <1>1 DEF AddHop, Inv
<1> HIDE DEF r
<1>4. route \in Seq(Hop) /\ n \in Nat /\ MaxHops \in Nat
  BY <1>3, RouteFacts
<1>5. /\ route' \in Seq(Hop) /\ Len(route') = n + 1 /\ DOMAIN route' = 1..(n + 1)
      /\ route'[n + 1] = r /\ \A i \in 1..n : route'[i] = route[i]
  BY <1>2, <1>3, <1>4, AppendProperties, LenProperties
<1>6. EventsFrom(events', route', 1)
  <2>1. EventsFrom(events \o HopEvents(r, n + 1), Append(route, r), 1)
    BY <1>2, <1>3, <1>4, EventsAdded DEF InRoute
  <2>2. QED BY <1>3, <2>1
<1>7. ASSUME NEW i \in 1..(n + 1) PROVE route'[i].in # route'[i].out
  <2>1. CASE i = n + 1
    BY <1>2, <1>5, <2>1
  <2>2. CASE i \in 1..n
    BY <1>3, <1>5, <2>2, RouteFacts
  <2>3. QED BY <1>4, <2>1, <2>2
<1>8. UNCHANGED <<pc, single, trade, success, row, hops, nextHop, current, sides, fills>>
  BY DEF AddHop
<1>9. RouteInv'
  BY <1>3, <1>4, <1>5, <1>7, <1>8 DEF RouteInv
<1>10. InRoute'
  BY <1>3, <1>6, <1>8 DEF InRoute
<1>11. \A i \in DOMAIN events' : events'[i].hop \in DOMAIN route'
  <2>1. events' \in Seq(Event(route'))
    BY <1>6 DEF EventsFrom
  <2>2. DOMAIN events' = 1..Len(events')
    BY <2>1, LenProperties
  <2>3. \A i \in DOMAIN events' : events'[i] \in Event(route')
    BY <2>1, <2>2, ElementOfSeq
  <2>4. QED BY <2>3 DEF Event
<1>12. TypeOK'
  <2>1. route' \in Seq([in: Mints, out: Mints, buy: BOOLEAN, kind: HopKinds])
    BY <1>5 DEF Hop
  <2>2. Len(route') <= MaxHops
    BY <1>3, <1>4, <1>5
  <2>3. QED BY <1>3, <1>8, <1>11, <2>1, <2>2 DEF TypeOK
<1>13. QED BY <1>3, <1>8, <1>9, <1>10, <1>12 DEF Inv, RouteDone

\* The accounts are read when the route is handled.
LEMMA ReadAccounts ==
    ASSUME Inv, pc = "route", route # <<>>, NEW extra \in 0..(AccountsPerHop - 1)
    PROVE  /\ HopsOf(AccountsOf(route, extra)) = Seen
           /\ Len(Seen) = Len(route)
           /\ \A i \in DOMAIN Seen : {Seen[i].base, Seen[i].quote} \subseteq Mints
<1>1. RouteInv /\ Len(route) \in Nat
  BY RouteFacts DEF Inv
<1>2. HopsOf(AccountsOf(route, extra)) = Seen
  BY <1>1, HopsRead DEF Seen, HopAt
<1>3. QED BY <1>1, <1>2, SeenFacts

LEMMA SucceedsKeeps ==
    ASSUME Inv, NEW extra \in 0..(AccountsPerHop - 1), Succeeds(extra)
    PROVE  Inv'
<1>1. /\ pc = "route" /\ route # <<>> /\ RouteInv /\ InRoute /\ TypeOK /\ IsSequence(fills)
      /\ pc' = "events" /\ hops' = Seen
      /\ UNCHANGED <<single, trade, route, success, row, events, nextHop, current, sides, fills>>
  BY ReadAccounts DEF Succeeds, Inv
<1>2. /\ Len(Seen) = Len(route)
      /\ \A i \in DOMAIN Seen : {Seen[i].base, Seen[i].quote} \subseteq Mints
  BY <1>1, ReadAccounts
<1>3. TypeOK'
  BY <1>1, <1>2 DEF TypeOK
<1>4. RouteInv'
  <2>1. \A i : HopAt(i)' = HopAt(i)
    BY <1>1, SameRoute
  <2>2. QED BY <1>1, <2>1 DEF RouteInv, InRoute, Seen
<1>5. InEvents'
  <2>1. RecordableBefore(1)' = {}
    BY <1>1, SameRoute, NoneBefore
  <2>2. fills' = <<>> /\ nextHop' = 1 /\ single' = "none" /\ success'
    BY <1>1 DEF InRoute
  <2>3. DoneBefore(1, ExecutedFills)'
    <3>1. Lists(fills', RecordableBefore(1)', ExecutedFills')
      BY <2>1, <2>2, ListsNone
    <3>2. nextHop' <= 1 /\ Len(fills') < 1
      BY <2>2
    <3>3. QED BY <3>1, <3>2 DEF DoneBefore
  <2>4. EventsFrom(events, route, 1)' /\ 1 \in 1..(Len(route) + 1)
    BY <1>1, RouteFacts DEF InRoute
  <2>5. QED BY <1>1, <2>2, <2>3, <2>4 DEF InEvents
<1>6. QED BY <1>1, <1>3, <1>4, <1>5 DEF Inv, RouteDone

LEMMA FailsKeeps ==
    ASSUME Inv, NEW extra \in 0..(AccountsPerHop - 1), Fails(extra)
    PROVE  Inv'
<1>1. /\ pc = "route" /\ route # <<>> /\ RouteInv /\ InRoute /\ TypeOK /\ IsSequence(fills)
      /\ success' = FALSE /\ row' \in BOOLEAN /\ events' = <<>> /\ hops' = Seen
      /\ current' = InputMint(Seen, IF row' THEN route[1].in ELSE NoMint)
      /\ pc' = (IF current' = NoMint THEN "done" ELSE "sides")
      /\ UNCHANGED <<single, route, nextHop, sides, fills>>
  BY ReadAccounts DEF Fails, Inv
<1>2. /\ Len(Seen) = Len(route)
      /\ \A i \in DOMAIN Seen : {Seen[i].base, Seen[i].quote} \subseteq Mints
  BY <1>1, ReadAccounts
<1>3. /\ current' \in Mints \cup {NoMint}
      /\ current' = NoMint => ~(Chains(route) /\ (row' \/ ~Ambiguous))
      /\ current' # NoMint => (row' \/ ~Ambiguous) /\ (Chains(route) => current' = route[1].in)
  BY <1>1, SpentMint
<1>4. pc' \in {"done", "sides"} /\ single' = "none" /\ fills' = <<>> /\ sides' = <<>> /\ nextHop' = 1
  BY <1>1 DEF InRoute
<1>5. TypeOK'
  <2>1. DOMAIN events' = {}
    BY <1>1
  <2>2. QED BY <1>1, <1>2, <1>3, <1>4, <2>1 DEF TypeOK
<1>6. RouteInv'
  <2>1. \A i : HopAt(i)' = HopAt(i)
    BY <1>1, SameRoute
  <2>2. QED BY <1>1, <1>4, <2>1 DEF RouteInv, Seen
<1>7. (Ambiguous' <=> Ambiguous) /\ Chains(route') = Chains(route)
  BY <1>1, SameRoute
<1>8. pc' = "sides" => InSides'
  <2> SUFFICES ASSUME pc' = "sides" PROVE InSides'
    OBVIOUS
  <2>1. current' # NoMint
    BY <1>1
  <2>2. Len(route) \in Nat /\ Len(route) >= 1
    BY <1>1, RouteFacts
  <2>3. /\ sides' \in Seq(BOOLEAN) /\ Len(sides') = 0 /\ 1..Len(sides') = {}
        /\ Len(sides') <= Len(route') /\ route'[Len(sides') + 1].in = route[1].in
    BY <1>1, <1>4, <2>2
  <2>4. SidesInv'
    BY <1>1, <1>3, <1>7, <2>1, <2>3 DEF SidesInv
  <2>5. QED BY <1>4, <2>4 DEF InSides
<1>9. pc' = "done" => Failed'
  <2>1. pc' = "done" => current' = NoMint
    BY <1>1
  <2>2. QED BY <1>3, <1>4, <1>7, <2>1 DEF Failed, Telling
<1>10. QED BY <1>1, <1>4, <1>5, <1>6, <1>8, <1>9 DEF Inv, RouteDone

\* The hops are those of the route while it is handled.
LEMMA HopsSeen ==
    ASSUME Inv, pc # "route", single = "none"
    PROVE  hops = Seen
BY DEF Inv, RouteInv, Seen

\* The next event, and what is recorded of the hops before its own.
LEMMA NextEvent ==
    ASSUME Inv, pc = "events", events # <<>>, NEW k \in 1..(Len(route) + 1),
           EventsFrom(events, route, k), DoneBefore(k, ExecutedFills)
    PROVE  LET e == Head(events) IN
           /\ e \in Event(route) /\ e.hop \in 1..Len(route)
           /\ e.kind # "trade" => EventsFrom(Tail(events), route, k)
           /\ e.kind = "trade" =>
                 /\ e.hop >= k /\ e.hop + 1 \in 1..(Len(route) + 1)
                 /\ EventsFrom(Tail(events), route, e.hop + 1)
                 /\ RecordableBefore(e.hop) = RecordableBefore(k)
<1> DEFINE e == Head(events)
<1>1. /\ route \in Seq(Hop) /\ Len(route) \in Nat /\ DOMAIN route = 1..Len(route) /\ k \in Nat
  BY RouteFacts DEF Inv
<1>2. /\ e \in Event(route)
      /\ e.kind # "trade" => EventsFrom(Tail(events), route, k)
      /\ e.kind = "trade" =>
            /\ e.hop >= k /\ route[e.hop].kind # "curve"
            /\ \A i \in k..(e.hop - 1) : route[i].kind = "curve"
            /\ EventsFrom(Tail(events), route, e.hop + 1)
  BY <1>1, EventsLeft
<1> HIDE DEF e
<1>3. e.hop \in 1..Len(route) /\ e.hop + 1 \in 1..(Len(route) + 1)
  BY <1>1, <1>2 DEF Event
<1>4. ASSUME e.kind = "trade" PROVE RecordableBefore(e.hop) = RecordableBefore(k)
  <2>1. ASSUME NEW i \in Recordable, i < e.hop PROVE i < k
    <3>1. i \in 1..Len(route) /\ route[i].kind # "curve"
      BY <1>1 DEF Recordable
    <3>2. QED BY <1>1, <1>2, <1>3, <1>4, <2>1, <3>1
  <2>2. ASSUME NEW i \in Recordable, i < k PROVE i < e.hop
    <3>1. i \in 1..Len(route)
      BY <1>1 DEF Recordable
    <3>2. QED BY <1>1, <1>2, <1>3, <1>4, <2>2, <3>1
  <2>3. QED BY <2>1, <2>2 DEF RecordableBefore
<1>5. QED BY <1>2, <1>3, <1>4 DEF e

\* A step of the walk over the events that leaves the events from hop k on.
LEMMA EventsStep ==
    ASSUME Inv, pc = "events", pc' = "events", events # <<>>, events' = Tail(events),
           UNCHANGED <<single, trade, route, success, row, hops, current, sides>>,
           NEW k \in 1..(Len(route) + 1), EventsFrom(Tail(events), route, k),
           nextHop' \in 1..k, Len(fills') < k, Len(fills') \in Nat, IsSequence(fills'),
           Lists(fills', RecordableBefore(k), ExecutedFills)
    PROVE  Inv'
<1>1. RouteInv /\ TypeOK /\ InEvents /\ Len(route) \in Nat /\ Len(route) <= MaxHops /\ MaxHops \in Nat
  BY RouteFacts DEF Inv
<1>2. RecordableBefore(k)' = RecordableBefore(k) /\ ExecutedFills' = ExecutedFills
  BY SameRoute
<1>3. InEvents'
  <2>1. DoneBefore(k, ExecutedFills)'
    BY <1>1, <1>2 DEF DoneBefore
  <2>2. EventsFrom(events, route, k)' /\ k \in 1..(Len(route') + 1)
    OBVIOUS
  <2>3. QED BY <1>1, <2>1, <2>2 DEF InEvents
<1>4. RouteInv'
  <2>1. \A i : HopAt(i)' = HopAt(i)
    BY SameRoute
  <2>2. QED BY <1>1, <2>1 DEF RouteInv
<1>5. \A i \in DOMAIN events' : events'[i].hop \in DOMAIN route'
  <2>1. events' \in Seq(Event(route))
    BY DEF EventsFrom
  <2>2. DOMAIN events' = 1..Len(events')
    BY <2>1, LenProperties
  <2>3. \A i \in DOMAIN events' : events'[i] \in Event(route)
    BY <2>1, <2>2, ElementOfSeq
  <2>4. QED BY <2>3 DEF Event
<1>6. nextHop' \in 1..(MaxHops + 1) /\ Len(fills') <= MaxHops
  BY <1>1
<1>7. TypeOK'
  BY <1>1, <1>5, <1>6 DEF TypeOK
<1>8. QED BY <1>3, <1>4, <1>7 DEF Inv, RouteDone

LEMMA SkipEventKeeps == Inv /\ SkipEvent => Inv'
<1> SUFFICES ASSUME Inv, SkipEvent PROVE Inv'
  OBVIOUS
<1> DEFINE e == Head(events)
           p == DataOf(e)
<1>1. /\ pc = "events" /\ events # <<>> /\ events' = Tail(events)
      /\ ~IsTrade(p) \/ MatchesFrom(p) = {}
      /\ UNCHANGED <<pc, single, trade, route, success, row, hops, nextHop, current, sides, fills>>
  BY DEF SkipEvent
<1>2. /\ RouteInv /\ TypeOK /\ InEvents /\ success /\ single = "none" /\ IsSequence(fills)
      /\ nextHop \in Nat /\ nextHop >= 1
  BY <1>1, RouteAssumption DEF Inv, InEvents, TypeOK
<1>3. PICK k \in 1..(Len(route) + 1) :
        EventsFrom(events, route, k) /\ DoneBefore(k, ExecutedFills)
  BY <1>2 DEF InEvents
<1>4. /\ e \in Event(route) /\ e.hop \in 1..Len(route)
      /\ e.kind # "trade" => EventsFrom(Tail(events), route, k)
      /\ e.kind = "trade" =>
            /\ e.hop >= k /\ e.hop + 1 \in 1..(Len(route) + 1)
            /\ EventsFrom(Tail(events), route, e.hop + 1)
            /\ RecordableBefore(e.hop) = RecordableBefore(k)
  BY <1>1, <1>3, NextEvent
<1>5. /\ Len(route) \in Nat /\ Len(fills) \in Nat /\ route \in Seq(Hop) /\ Len(route) <= MaxHops
      /\ DOMAIN route = 1..Len(route) /\ \A i \in 1..Len(route) : route[i] \in Hop
  BY <1>2, RouteFacts, AppendAny
<1>6. nextHop <= k /\ Len(fills) < k /\ Lists(fills, RecordableBefore(k), ExecutedFills)
  BY <1>3 DEF DoneBefore
<1>7. CASE e.kind # "trade"
  <2>1. nextHop' \in 1..k /\ Len(fills') < k /\ Len(fills') \in Nat
    BY <1>1, <1>2, <1>5, <1>6
  <2>2. QED BY <1>1, <1>2, <1>4, <1>6, <1>7, <2>1, EventsStep
<1>8. CASE e.kind = "trade"
  <2> DEFINE h == e.hop
             r == route[h]
  <2>1. IsTrade(p) /\ (r.kind # "cut" => EventPool(p) = {PoolOf(r)})
    BY <1>4, <1>5, <1>8, EventsRead
  <2> HIDE DEF p, e
  <2>2. r.kind = "cut"
    <3>1. SUFFICES ASSUME r.kind # "cut" PROVE FALSE
      OBVIOUS
    <3>2. hops = Seen /\ Len(hops) = Len(route) /\ hops[h].pool = PoolOf(r)
      BY <1>1, <1>2, <1>4, HopsSeen, SeenFacts
    <3>3. h \in nextHop..Len(hops)
      BY <1>2, <1>4, <1>5, <1>6, <1>8, <3>2
    <3>4. hops[h].pool \in EventPool(p)
      BY <2>1, <3>1, <3>2
    <3>5. QED BY <1>1, <2>1, <3>3, <3>4 DEF MatchesFrom
  <2>3. h \notin Recordable
    BY <1>2, <2>2 DEF Recordable
  <2>4. RecordableBefore(h + 1) = RecordableBefore(h)
    <3>1. ASSUME NEW i \in Recordable PROVE i < h + 1 <=> i < h
      <4>1. i \in 1..Len(route) /\ i # h
        BY <1>5, <2>3 DEF Recordable
      <4>2. QED BY <1>4, <4>1
    <3>2. QED BY <3>1 DEF RecordableBefore
  <2>5. nextHop' \in 1..(h + 1) /\ Len(fills') < h + 1 /\ Len(fills') \in Nat
    BY <1>1, <1>2, <1>4, <1>5, <1>6, <1>8
  <2>6. EventsFrom(Tail(events), route, h + 1) /\ h + 1 \in 1..(Len(route) + 1)
        /\ Lists(fills', RecordableBefore(h + 1), ExecutedFills)
    BY <1>1, <1>4, <1>6, <1>8, <2>4
  <2> HIDE DEF h
  <2>7. QED BY <1>1, <1>2, <2>5, <2>6, EventsStep
<1>9. QED BY <1>7, <1>8

\* The hops before the one after i are those before i, and i itself.
LEMMA BeforeNext ==
    ASSUME RouteInv, NEW i \in 1..Len(route)
    PROVE  /\ i \in Recordable => RecordableBefore(i + 1) = RecordableBefore(i) \cup {i}
           /\ i \notin Recordable => RecordableBefore(i + 1) = RecordableBefore(i)
           /\ \A j \in RecordableBefore(i) : j < i
<1>1. Recordable \subseteq 1..Len(route) /\ Len(route) \in Nat
  BY RouteFacts, NoneBefore
<1>2. ASSUME NEW j \in Recordable PROVE j < i + 1 <=> j < i \/ j = i
  BY <1>1
<1>3. i < i + 1
  OBVIOUS
<1>4. QED BY <1>2, <1>3 DEF RecordableBefore

\* The pool of a hop is eligible when it is canonical and its coin tracked.
LEMMA EligibleHop ==
    ASSUME RouteInv, NEW i \in 1..Len(route)
    PROVE  Eligible(HopAt(i)) <=> /\ route[i].kind \in {"canonical", "cut"}
                                  /\ Base(route[i]) \in Whitelisted \ {WSOL}
<1>1. route[i] \in Hop
  BY RouteFacts
<1>2. PoolOf(route[i]) = Canonical(Base(route[i]), Quote(route[i]))
        <=> route[i].kind \in {"canonical", "cut"}
  BY <1>1, Pools
<1>3. QED BY <1>2 DEF Eligible, HopAt

LEMMA MatchEventKeeps == Inv /\ MatchEvent => Inv'
<1> SUFFICES ASSUME Inv, MatchEvent PROVE Inv'
  OBVIOUS
<1> DEFINE e == Head(events)
           p == DataOf(e)
           h == e.hop
           r == route[h]
           m == HopMoves[h]
<1>1. /\ pc = "events" /\ events # <<>> /\ events' = Tail(events) /\ IsTrade(p)
      /\ UNCHANGED <<pc, single, trade, route, success, row, hops, current, sides>>
  BY DEF MatchEvent
<1>2. PICK i \in MatchesFrom(p) :
        /\ \A j \in MatchesFrom(p) : i <= j
        /\ nextHop' = i + 1 /\ fills' = WithEvent(hops[i], p)
  BY DEF MatchEvent
<1>3. /\ RouteInv /\ TypeOK /\ InEvents /\ success /\ single = "none" /\ IsSequence(fills)
      /\ nextHop \in Nat /\ nextHop >= 1
  BY <1>1, RouteAssumption DEF Inv, InEvents, TypeOK
<1>4. PICK k \in 1..(Len(route) + 1) :
        EventsFrom(events, route, k) /\ DoneBefore(k, ExecutedFills)
  BY <1>3 DEF InEvents
<1>5. /\ e \in Event(route) /\ h \in 1..Len(route)
      /\ e.kind = "trade" =>
            /\ h >= k /\ h + 1 \in 1..(Len(route) + 1)
            /\ EventsFrom(Tail(events), route, h + 1)
            /\ RecordableBefore(h) = RecordableBefore(k)
  BY <1>1, <1>4, NextEvent
<1>6. /\ Len(route) \in Nat /\ Len(fills) \in Nat /\ route \in Seq(Hop) /\ Len(route) <= MaxHops
      /\ DOMAIN route = 1..Len(route) /\ \A j \in 1..Len(route) : route[j] \in Hop
  BY <1>3, RouteFacts, AppendAny
<1>7. nextHop <= k /\ Len(fills) < k /\ Lists(fills, RecordableBefore(k), ExecutedFills)
  BY <1>4 DEF DoneBefore
<1>8. /\ e.kind = "note" => ~IsTrade(p)
      /\ e.kind = "foreign" => EventPool(p) = {<<"unknown">>}
      /\ e.kind = "trade" =>
           /\ (p.disc = "buy") = r.buy
           /\ r.kind = "cut" => EventPool(p) = {}
           /\ r.kind # "cut" =>
                /\ EventPool(p) = {PoolOf(r)}
                /\ EventAmounts(p, r.buy) = {Amounts(m.token, m.volume, m.base, Priced(m))}
  BY <1>5, <1>6, EventsRead
<1>9. e.kind \in {"note", "foreign", "trade"}
  BY <1>5 DEF Event
<1> HIDE DEF p, e
<1>10. /\ hops = Seen /\ i \in 1..Len(route) /\ i \in nextHop..Len(route)
       /\ hops[i] = HopAt(i) /\ hops[i].pool = PoolOf(route[i]) /\ PoolOf(route[i]) \in EventPool(p)
  <2>1. hops = Seen /\ Len(hops) = Len(route)
    BY <1>1, <1>3, HopsSeen, SeenFacts
  <2>2. i \in nextHop..Len(hops) /\ hops[i].pool \in EventPool(p)
    BY <1>2 DEF MatchesFrom
  <2>3. i \in 1..Len(route)
    BY <1>3, <1>6, <2>1, <2>2
  <2>4. QED BY <1>3, <2>1, <2>2, <2>3, SeenFacts
<1>11. PoolOf(route[i]) # <<"unknown">>
  BY <1>6, <1>10, Pools
<1>12. e.kind = "trade" /\ r.kind # "cut" /\ PoolOf(route[i]) = PoolOf(r)
  BY <1>1, <1>8, <1>9, <1>10, <1>11
<1>13. HopAt(i) = HopAt(h)
  <2>1. Base(route[i]) = Base(r) /\ Quote(route[i]) = Quote(r)
    BY <1>5, <1>6, <1>10, <1>12, Pools
  <2>2. QED BY <1>12, <2>1 DEF HopAt
<1>14. i <= h
  <2>1. h \in nextHop..Len(hops)
    BY <1>3, <1>5, <1>6, <1>7, <1>10, <1>12, SeenFacts
  <2>2. hops[h].pool = PoolOf(r)
    BY <1>3, <1>5, <1>10, SeenFacts
  <2>3. h \in MatchesFrom(p)
    BY <1>8, <1>12, <2>1, <2>2 DEF MatchesFrom
  <2>4. QED BY <1>2, <2>3
<1>15. nextHop' \in 1..(h + 1)
  BY <1>2, <1>5, <1>10, <1>14
<1>16. Eligible(hops[i]) <=> h \in Recordable
  <2>1. Eligible(HopAt(h)) <=> /\ r.kind \in {"canonical", "cut"}
                               /\ Base(r) \in Whitelisted \ {WSOL}
    BY <1>3, <1>5, EligibleHop
  <2>2. h \in Recordable <=> r.kind = "canonical" /\ Base(r) \in Whitelisted \ {WSOL}
    BY <1>3, <1>5, <1>6 DEF Recordable
  <2>3. QED BY <1>10, <1>12, <1>13, <2>1, <2>2
<1>17. CASE h \notin Recordable
  <2>1. fills' = fills
    BY <1>2, <1>16, <1>17 DEF WithEvent
  <2>2. RecordableBefore(h + 1) = RecordableBefore(k)
    BY <1>3, <1>5, <1>12, <1>17, BeforeNext
  <2>3. Len(fills') < h + 1 /\ Len(fills') \in Nat /\ IsSequence(fills')
    BY <1>3, <1>5, <1>6, <1>7, <1>12, <2>1
  <2>4. Lists(fills', RecordableBefore(h + 1), ExecutedFills)
    BY <1>7, <2>1, <2>2
  <2> HIDE DEF h
  <2>5. QED BY <1>1, <1>5, <1>12, <1>15, <2>3, <2>4, EventsStep
<1>18. CASE h \in Recordable
  <2> DEFINE a == Amounts(m.token, m.volume, m.base, Priced(m))
             f == EventFill(HopAt(h), HopType(hops, HopAt(h), r.buy), r.buy, a)
  <2>1. fills' = Append(fills, f)
    <3>1. EventAmounts(p, p.disc = "buy") = {a} /\ (p.disc = "buy") = r.buy
      BY <1>8, <1>12
    <3> HIDE DEF a
    <3>2. {a} # {} /\ (CHOOSE x \in {a} : TRUE) = a
      OBVIOUS
    <3> HIDE DEF r
    <3>3. WithEvent(HopAt(h), p) = Append(fills, f)
      BY <1>10, <1>13, <1>16, <1>18, <3>1, <3>2 DEF WithEvent
    <3>4. QED BY <1>2, <1>10, <1>13, <3>3
  <2>2. f = ExecutedFills[h] /\ DOMAIN ExecutedFills = 1..Len(route)
    BY <1>5, <1>6 DEF ExecutedFills, ExecutedFill
  <2> HIDE DEF f
  <2>3. Lists(Append(fills, ExecutedFills[h]), RecordableBefore(h) \cup {h}, ExecutedFills)
    <3>1. DOMAIN ExecutedFills \subseteq Int /\ h \in DOMAIN ExecutedFills
      BY <1>5, <2>2
    <3>2. Lists(fills, RecordableBefore(h), ExecutedFills) /\ \A j \in RecordableBefore(h) : j < h
      BY <1>3, <1>5, <1>7, <1>12, BeforeNext
    <3> HIDE DEF h
    <3>3. QED BY <1>3, <3>1, <3>2, ListsAppend
  <2>4. Lists(fills', RecordableBefore(h + 1), ExecutedFills)
    BY <1>3, <1>5, <1>18, <2>1, <2>2, <2>3, BeforeNext
  <2>5. Len(fills') = Len(fills) + 1 /\ IsSequence(fills')
    BY <1>3, <2>1, AppendAny
  <2>6. Len(fills') < h + 1 /\ Len(fills') \in Nat
    BY <1>5, <1>6, <1>7, <1>12, <2>5
  <2> HIDE DEF h
  <2>7. QED BY <1>1, <1>5, <1>12, <1>15, <2>4, <2>5, <2>6, EventsStep
<1>19. QED BY <1>17, <1>18

-----------------------------------------------------------------------------
(* Steps on a failed route.                                                *)

\* A side added: each hop is still fed what the one before it passed on.
LEMMA ChainHopKeeps == Inv /\ ChainHop => Inv'
<1> SUFFICES ASSUME Inv, ChainHop PROVE Inv'
  OBVIOUS
<1>1. /\ pc = "sides" /\ RouteInv /\ TypeOK /\ InSides /\ SidesInv /\ IsSequence(fills)
      /\ single = "none" /\ fills = <<>> /\ nextHop = 1
  BY DEF ChainHop, Inv, InSides
<1>n. PICK n \in Nat : n = Len(sides)
  BY <1>1, LenProperties DEF SidesInv
<1> DEFINE h == Seen[n + 1]
           b == current = h.quote
<1>2. hops = Seen
  BY <1>1, HopsSeen
<1>3. /\ n < Len(Seen) /\ Through(h, current) # NoMint /\ current' = Through(h, current)
      /\ sides' = Append(sides, b)
      /\ UNCHANGED <<pc, single, trade, route, success, row, hops, events, nextHop, fills>>
  BY <1>n, <1>2 DEF ChainHop, SideHop
<1>4. /\ sides \in Seq(BOOLEAN) /\ n \in Nat /\ n <= Len(route) /\ current \in Mints
      /\ \A i \in 1..n : (IF i = n THEN current ELSE FedTo(i + 1)) = PassedFrom(i)
      /\ Chains(route) => /\ \A i \in 1..n : sides[i] = route[i].buy
                          /\ n < Len(route) => current = route[n + 1].in
  BY <1>n, <1>1 DEF SidesInv
<1>5. /\ Len(route) \in Nat /\ n + 1 \in 1..Len(route) /\ Len(route) <= MaxHops /\ MaxHops \in Nat
      /\ route[n + 1] \in Hop /\ route[n + 1].in # route[n + 1].out
  BY <1>1, <1>3, <1>4, RouteFacts, SeenFacts
<1>6. /\ h.base = Base(route[n + 1]) /\ h.quote = Quote(route[n + 1]) /\ h.base \in Mints
      /\ h.quote \in Mints /\ h.base # h.quote
  BY <1>1, <1>5, SeenFacts
<1>7. /\ sides' \in Seq(BOOLEAN) /\ Len(sides') = n + 1 /\ sides'[n + 1] = b
      /\ \A i \in 1..n : sides'[i] = sides[i]
  <2>1. b \in BOOLEAN
    OBVIOUS
  <2> HIDE DEF b
  <2>2. QED BY <1>n, <1>3, <1>4, <2>1, AppendProperties
<1>8. current' \in Mints /\ (b => current' = h.base) /\ (~b => current = h.base /\ current' = h.quote)
  BY <1>3, <1>6 DEF Through
<1>9. \A i \in 1..(n + 1) : hops'[i] = Seen[i]
  BY <1>2, <1>3
<1> HIDE DEF h
<1>10. /\ \A i \in 1..n : FedTo(i)' = FedTo(i) /\ PassedFrom(i)' = PassedFrom(i)
       /\ FedTo(n + 1)' = current /\ PassedFrom(n + 1)' = current'
  <2>1. \A i \in 1..n : FedTo(i)' = FedTo(i) /\ PassedFrom(i)' = PassedFrom(i)
    BY <1>3, <1>7 DEF FedTo, PassedFrom
  <2>2. hops'[n + 1] = h /\ sides'[n + 1] = b
    BY <1>4, <1>7, <1>9 DEF h
  <2>3. QED BY <1>8, <2>1, <2>2 DEF FedTo, PassedFrom
<1>11. ASSUME NEW i \in 1..(n + 1)
       PROVE  (IF i = n + 1 THEN current' ELSE FedTo(i + 1)') = PassedFrom(i)'
  <2>1. CASE i = n + 1
    BY <1>10, <2>1
  <2>2. CASE i = n
    <3>1. PassedFrom(n)' = current /\ FedTo(n + 1)' = current
      BY <1>4, <1>10, <2>2
    <3>2. QED BY <1>4, <2>2, <3>1
  <2>3. CASE i < n
    <3>1. i \in 1..n /\ i + 1 \in 1..n /\ i # n /\ i # n + 1
      BY <1>4, <2>3
    <3>2. QED BY <1>4, <1>10, <3>1
  <2>4. QED BY <1>4, <2>1, <2>2, <2>3
<1>12. ASSUME Chains(route)
       PROVE  /\ \A i \in 1..(n + 1) : sides'[i] = route[i].buy
              /\ n + 1 < Len(route) => current' = route[n + 2].in
  <2>1. current = route[n + 1].in
    BY <1>4, <1>5, <1>12
  <2>2. b = route[n + 1].buy /\ current' = route[n + 1].out
    <3>1. route[n + 1].buy \in BOOLEAN
      BY <1>5 DEF Hop
    <3>2. CASE route[n + 1].buy = TRUE
      BY <1>5, <1>6, <1>8, <2>1, <3>2, HopMints
    <3>3. CASE route[n + 1].buy = FALSE
      BY <1>5, <1>6, <1>8, <2>1, <3>3, HopMints
    <3>4. QED BY <3>1, <3>2, <3>3
  <2>3. ASSUME n + 1 < Len(route) PROVE current' = route[n + 2].in
    <3>1. n + 1 \in 1..(Len(route) - 1) /\ (n + 1) + 1 = n + 2
      BY <1>4, <1>5, <2>3
    <3>2. QED BY <1>12, <2>2, <3>1 DEF Chains
  <2>4. ASSUME NEW i \in 1..(n + 1) PROVE sides'[i] = route[i].buy
    <3>1. CASE i = n + 1
      BY <1>7, <2>2, <3>1
    <3>2. CASE i \in 1..n
      BY <1>4, <1>7, <1>12, <3>2
    <3>3. QED BY <1>4, <3>1, <3>2
  <2>5. QED BY <2>3, <2>4
<1>13. SidesInv'
  <2>1. Ambiguous' <=> Ambiguous
    BY <1>3, SameRoute
  <2>2. \A i \in 1..Len(sides') :
          (IF i = Len(sides') THEN current' ELSE FedTo(i + 1)') = PassedFrom(i)'
    BY <1>7, <1>11
  <2>3. Len(sides') <= Len(route') /\ (Len(sides') + 1 = n + 2)
    BY <1>3, <1>4, <1>5, <1>7
  <2>4. Chains(route') => /\ \A i \in 1..Len(sides') : sides'[i] = route'[i].buy
                          /\ Len(sides') < Len(route') => current' = route'[Len(sides') + 1].in
    BY <1>3, <1>7, <1>12, <2>3
  <2>5. ~success' /\ events' = <<>> /\ (row' \/ ~Ambiguous')
    BY <1>1, <1>3, <2>1 DEF SidesInv
  <2>6. QED BY <1>7, <1>8, <2>2, <2>3, <2>4, <2>5 DEF SidesInv
<1>14. RouteInv'
  <2>1. \A i : HopAt(i)' = HopAt(i)
    BY <1>3, SameRoute
  <2>2. QED BY <1>1, <1>3, <2>1 DEF RouteInv
<1>15. TypeOK'
  <2>1. Len(sides') <= MaxHops
    BY <1>4, <1>5, <1>7
  <2>2. QED BY <1>1, <1>3, <1>7, <1>8, <2>1 DEF TypeOK
<1>16. QED BY <1>1, <1>3, <1>13, <1>14, <1>15 DEF Inv, InSides, RouteDone

\* A step that only moves on: what is not about the place the handler is at.
LEMMA MovesOn ==
    ASSUME Inv, pc # "route", pc' # "route", pc' \in {"requests", "done"},
           UNCHANGED <<single, trade, route, success, row, hops, events, nextHop, current, sides,
                       fills>>
    PROVE  /\ TypeOK' /\ RouteInv' /\ IsSequence(fills') /\ (SidesInv => SidesInv')
           /\ (Telling' <=> Telling) /\ Recordable' = Recordable
           /\ ExecutedFills' = ExecutedFills /\ RequestedFills' = RequestedFills
           /\ \A k : RecordableBefore(k)' = RecordableBefore(k)
<1>1. /\ (Telling' <=> Telling) /\ Recordable' = Recordable /\ (Ambiguous' <=> Ambiguous)
      /\ ExecutedFills' = ExecutedFills /\ RequestedFills' = RequestedFills
      /\ \A k : RecordableBefore(k)' = RecordableBefore(k)
      /\ \A i : HopAt(i)' = HopAt(i)
  BY SameRoute
<1>2. TypeOK'
  BY DEF Inv, TypeOK
<1>3. RouteInv'
  BY <1>1 DEF Inv, RouteInv
<1>4. SidesInv => SidesInv'
  BY <1>1 DEF SidesInv, FedTo, PassedFrom
<1>5. QED BY <1>1, <1>2, <1>3, <1>4 DEF Inv

LEMMA ChainBreaksKeeps == Inv /\ ChainBreaks => Inv'
<1> SUFFICES ASSUME Inv, ChainBreaks PROVE Inv'
  OBVIOUS
<1> DEFINE n == Len(sides)
           h == Seen[n + 1]
<1>1. /\ pc = "sides" /\ RouteInv /\ TypeOK /\ SidesInv /\ single = "none" /\ fills = <<>>
      /\ pc' = "done"
      /\ UNCHANGED <<single, trade, route, success, row, hops, events, nextHop, current, sides, fills>>
  BY DEF ChainBreaks, Inv, InSides
<1>2. n < Len(Seen) /\ Through(h, current) = NoMint
  BY <1>1, HopsSeen DEF ChainBreaks, SideHop
<1>3. n \in Nat /\ n < Len(route) /\ n + 1 \in 1..Len(route)
  BY <1>1, <1>2, LenProperties, RouteFacts, SeenFacts DEF SidesInv
<1>4. /\ h.base = Base(route[n + 1]) /\ h.quote = Quote(route[n + 1]) /\ h.base \in Mints
      /\ h.quote \in Mints /\ NoMint \notin Mints
  BY <1>1, <1>3, SeenFacts, RouteAssumption
<1>5. current # h.base /\ current # h.quote
  <2> HIDE DEF h
  <2>1. QED BY <1>2, <1>4 DEF Through
<1>6. ~Chains(route)
  <2>1. Chains(route) => current = route[n + 1].in
    BY <1>1, <1>3 DEF SidesInv
  <2>2. {h.base, h.quote} = {route[n + 1].in, route[n + 1].out}
    BY <1>1, <1>3, <1>4, RouteFacts, HopMints
  <2>3. QED BY <1>5, <2>1, <2>2
<1>7. Failed'
  BY <1>1, <1>6 DEF Failed, Telling
<1>8. TypeOK' /\ RouteInv' /\ IsSequence(fills')
  BY <1>1, MovesOn
<1>9. ~success'
  BY <1>1 DEF SidesInv
<1>10. QED BY <1>1, <1>7, <1>8, <1>9 DEF Inv, RouteDone

LEMMA ChainedKeeps == Inv /\ Chained => Inv'
<1> SUFFICES ASSUME Inv, Chained PROVE Inv'
  OBVIOUS
<1>1. /\ pc = "sides" /\ RouteInv /\ TypeOK /\ SidesInv /\ single = "none" /\ fills = <<>>
      /\ nextHop = 1 /\ pc' = "requests" /\ Len(sides) = Len(hops)
      /\ UNCHANGED <<single, trade, route, success, row, hops, events, nextHop, current, sides, fills>>
  BY DEF Chained, Inv, InSides
<1>2. Len(sides) = Len(route)
  BY <1>1, HopsSeen, SeenFacts
<1>3. TypeOK' /\ RouteInv' /\ IsSequence(fills') /\ SidesInv' /\ RequestedFills' = RequestedFills
      /\ RecordableBefore(1)' = RecordableBefore(1)
  BY <1>1, MovesOn
<1>4. DoneBefore(nextHop, RequestedFills)'
  <2>1. RecordableBefore(nextHop)' = {}
    BY <1>1, <1>3, NoneBefore
  <2>2. Lists(fills', RecordableBefore(nextHop)', RequestedFills')
    BY <1>1, <2>1, ListsNone
  <2>3. nextHop' <= nextHop' /\ Len(fills') < nextHop'
    BY <1>1
  <2>4. QED BY <2>2, <2>3 DEF DoneBefore
<1>5. InRequests'
  BY <1>1, <1>2, <1>3, <1>4 DEF InRequests
<1>6. QED BY <1>1, <1>3, <1>5 DEF Inv, RouteDone

LEMMA RequestHopKeeps == Inv /\ RequestHop => Inv'
<1> SUFFICES ASSUME Inv, RequestHop PROVE Inv'
  OBVIOUS
<1>1. /\ pc = "requests" /\ RouteInv /\ TypeOK /\ SidesInv /\ single = "none" /\ ~success
      /\ IsSequence(fills) /\ Len(sides) = Len(route) /\ DoneBefore(nextHop, RequestedFills)
      /\ nextHop <= Len(hops) /\ nextHop \in 1..(MaxHops + 1) /\ MaxHops \in Nat
  BY RouteAssumption DEF RequestHop, Inv, InRequests, SidesInv, TypeOK
<1>2. PICK i \in Nat : i = nextHop
  BY <1>1
<1>3. /\ nextHop' = i + 1
      /\ fills' = IF Eligible(hops[i]) THEN Append(fills, RequestedFill(i)) ELSE fills
      /\ UNCHANGED <<pc, single, trade, route, success, row, hops, events, current, sides>>
  BY <1>2 DEF RequestHop
<1>4. hops = Seen
  BY <1>1, HopsSeen
<1>5. /\ i \in 1..Len(route) /\ hops[i] = HopAt(i) /\ Len(route) \in Nat /\ Len(route) <= MaxHops
      /\ DOMAIN route = 1..Len(route)
  BY <1>1, <1>2, <1>4, RouteFacts, SeenFacts
<1>6. Len(fills) < i /\ Lists(fills, RecordableBefore(i), RequestedFills)
  BY <1>1, <1>2 DEF DoneBefore
<1>7. Eligible(hops[i]) <=> i \in Recordable
  <2>1. Eligible(HopAt(i)) <=> /\ route[i].kind \in {"canonical", "cut"}
                               /\ Base(route[i]) \in Whitelisted \ {WSOL}
    BY <1>1, <1>5, EligibleHop
  <2>2. i \in Recordable <=> /\ route[i].kind \in {"canonical", "cut"}
                             /\ Base(route[i]) \in Whitelisted \ {WSOL}
    BY <1>1, <1>5 DEF Recordable
  <2>3. QED BY <1>5, <2>1, <2>2
<1>8. DOMAIN RequestedFills = 1..Len(route) /\ RequestedFills[i] = RequestedFill(i)
  BY <1>5 DEF RequestedFills
<1>9. /\ Len(fills') \in Nat /\ Len(fills') < i + 1 /\ IsSequence(fills')
      /\ Lists(fills', RecordableBefore(i + 1), RequestedFills)
  <2>1. CASE i \notin Recordable
    <3>1. fills' = fills /\ RecordableBefore(i + 1) = RecordableBefore(i)
      BY <1>1, <1>3, <1>5, <1>7, <2>1, BeforeNext
    <3>2. Len(fills) \in Nat
      BY <1>1, AppendAny
    <3>3. Len(fills) < i + 1
      BY <1>6, <3>2
    <3>4. QED BY <1>1, <1>6, <3>1, <3>2, <3>3
  <2>2. CASE i \in Recordable
    <3>1. /\ fills' = Append(fills, RequestedFills[i])
          /\ RecordableBefore(i + 1) = RecordableBefore(i) \cup {i}
          /\ \A j \in RecordableBefore(i) : j < i
      BY <1>1, <1>3, <1>5, <1>7, <1>8, <2>2, BeforeNext
    <3>2. Len(fills) \in Nat /\ Len(fills') = Len(fills) + 1 /\ IsSequence(fills')
      BY <1>1, <3>1, AppendAny
    <3>3. DOMAIN RequestedFills \subseteq Int /\ i \in DOMAIN RequestedFills
      BY <1>5, <1>8
    <3>4. Lists(Append(fills, RequestedFills[i]), RecordableBefore(i) \cup {i}, RequestedFills)
      BY <1>1, <1>6, <3>1, <3>3, ListsAppend
    <3>5. Len(fills') \in Nat /\ Len(fills') < i + 1
      BY <1>6, <3>2
    <3>6. QED BY <3>1, <3>2, <3>4, <3>5
  <2>3. QED BY <2>1, <2>2
<1>10. /\ RequestedFills' = RequestedFills /\ RecordableBefore(i + 1)' = RecordableBefore(i + 1)
       /\ (Ambiguous' <=> Ambiguous) /\ \A j : HopAt(j)' = HopAt(j)
  BY <1>3, SameRoute
<1>11. DoneBefore(nextHop, RequestedFills)'
  <2>1. RecordableBefore(nextHop)' = RecordableBefore(i + 1)'
    BY <1>3 DEF RecordableBefore
  <2>2. QED BY <1>3, <1>9, <1>10, <2>1 DEF DoneBefore
<1>12. SidesInv'
  BY <1>1, <1>3, <1>10 DEF SidesInv, FedTo, PassedFrom
<1>13. InRequests'
  BY <1>1, <1>3, <1>11, <1>12 DEF InRequests
<1>14. RouteInv'
  BY <1>1, <1>3, <1>10 DEF RouteInv
<1>15. TypeOK'
  <2>1. nextHop' \in 1..(MaxHops + 1) /\ Len(fills') <= MaxHops
    BY <1>1, <1>3, <1>5, <1>9
  <2>2. QED BY <1>1, <1>3, <2>1 DEF TypeOK
<1>16. QED BY <1>1, <1>3, <1>9, <1>13, <1>14, <1>15 DEF Inv, RouteDone

LEMMA ReturnFillsKeeps == Inv /\ ReturnFills => Inv'
<1> SUFFICES ASSUME Inv, ReturnFills PROVE Inv'
  OBVIOUS
<1>1. /\ pc' = "done" /\ pc \in {"events", "requests"} /\ RouteInv
      /\ UNCHANGED <<single, trade, route, success, row, hops, events, nextHop, current, sides, fills>>
  BY DEF ReturnFills, Inv
<1>2. /\ TypeOK' /\ RouteInv' /\ IsSequence(fills') /\ (SidesInv => SidesInv')
      /\ Recordable' = Recordable /\ ExecutedFills' = ExecutedFills
      /\ RequestedFills' = RequestedFills
  BY <1>1, MovesOn
<1>3. CASE pc = "events"
  <2>1. events = <<>> /\ single = "none" /\ success /\ InEvents
    BY <1>3 DEF ReturnFills, Inv, InEvents
  <2>2. PICK k \in 1..(Len(route) + 1) :
          EventsFrom(events, route, k) /\ DoneBefore(k, ExecutedFills)
    BY <2>1 DEF InEvents
  <2>3. RecordableBefore(k) = Recordable
    <3>1. DOMAIN events = {}
      BY <2>1
    <3>2. \A i \in k..Len(route) : route[i].kind = "curve"
      BY <2>2, <3>1 DEF EventsFrom
    <3>3. Recordable \subseteq 1..Len(route) /\ Len(route) \in Nat
      BY <1>1, NoneBefore, RouteFacts
    <3>4. ASSUME NEW i \in Recordable PROVE i < k
      <4>1. route[i].kind # "curve"
        BY DEF Recordable
      <4>2. QED BY <3>2, <3>3, <4>1
    <3>5. QED BY <3>4 DEF RecordableBefore
  <2>4. Succeeded'
    BY <1>1, <1>2, <2>2, <2>3 DEF Succeeded, DoneBefore
  <2>5. QED BY <1>1, <1>2, <2>1, <2>4 DEF Inv, RouteDone
<1>4. CASE pc = "requests"
  <2>1. /\ nextHop > Len(hops) /\ single = "none" /\ SidesInv /\ Len(sides) = Len(route)
        /\ DoneBefore(nextHop, RequestedFills) /\ ~success
        /\ nextHop \in 1..(MaxHops + 1) /\ MaxHops \in Nat
    BY <1>4, RouteAssumption DEF ReturnFills, Inv, InRequests, SidesInv, TypeOK
  <2>2. Len(hops) = Len(route)
    BY <1>1, <1>4, <2>1, HopsSeen, SeenFacts
  <2>3. RecordableBefore(nextHop) = Recordable
    <3>1. Recordable \subseteq 1..Len(route) /\ Len(route) \in Nat
      BY <1>1, NoneBefore, RouteFacts
    <3>2. \A i \in Recordable : i < nextHop
      BY <2>1, <2>2, <3>1
    <3>3. QED BY <3>2 DEF RecordableBefore
  <2>4. Failed'
    BY <1>1, <1>2, <2>1, <2>3 DEF Failed, DoneBefore
  <2>5. QED BY <1>1, <1>2, <2>1, <2>4 DEF Inv, RouteDone
<1>5. QED BY <1>1, <1>3, <1>4

-----------------------------------------------------------------------------
(* Single-pool trades.                                                     *)

LEMMA Instructions ==
    ASSUME NEW name \in DOMAIN TradeIx
    PROVE  LET ix == TradeIx[name] IN
           /\ name # "none" /\ ix.buy \in BOOLEAN /\ ix.exactIn \in BOOLEAN
           /\ \/ ix.buy = TRUE /\ ix.event = "buy" /\ name # "boost_buy_and_burn"
              \/ ix.buy = FALSE /\ ix.event = "sell" /\ name # "boost_buy_and_burn"
              \/ ix.buy = TRUE /\ ix.event = "boost" /\ name = "boost_buy_and_burn"
           /\ ix.exactIn <=> name \in {"buy_exact_quote_in", "buy_exact_quote_in_v2",
                                       "boost_buy_and_burn"}
<1>1. name \in {"buy", "buy_exact_quote_in", "sell", "buy_v2", "buy_exact_quote_in_v2", "sell_v2",
               "boost_buy_and_burn"}
  BY DEF TradeIx
<1>2. CASE name = "buy"
  BY <1>2 DEF TradeIx
<1>3. CASE name = "buy_exact_quote_in"
  BY <1>3 DEF TradeIx
<1>4. CASE name = "sell"
  BY <1>4 DEF TradeIx
<1>5. CASE name = "buy_v2"
  BY <1>5 DEF TradeIx
<1>6. CASE name = "buy_exact_quote_in_v2"
  BY <1>6 DEF TradeIx
<1>7. CASE name = "sell_v2"
  BY <1>7 DEF TradeIx
<1>8. CASE name = "boost_buy_and_burn"
  BY <1>8 DEF TradeIx
<1>9. QED BY <1>1, <1>2, <1>3, <1>4, <1>5, <1>6, <1>7, <1>8

\* The quote reserves recorded of a single-pool trade.
Quoted(name, version, move) ==
    IF version = "old" /\ name # "boost_buy_and_burn" THEN move.raw ELSE Priced(move)

SingleAmounts(name, version, move) ==
    IF version = "cut" THEN {}
    ELSE {Amounts(move.token, move.volume, move.base, Quoted(name, version, move))}

\* What is read from the event of each instruction.
LEMMA SingleReads ==
    ASSUME NEW name \in DOMAIN TradeIx, NEW move \in Moves, NEW pool, NEW len \in Nat,
           NEW version \in {"new", "old", "cut"}
    PROVE  EventAmounts(Payload(TradeIx[name].event, Told(move, pool, len), version),
                        TradeIx[name].buy)
             = SingleAmounts(name, version, move)
<1> DEFINE t == Told(move, pool, len)
           ix == TradeIx[name]
<1>1. /\ t.name \in Nat /\ t.token = move.token /\ t.volume = move.volume
      /\ t.base = move.base /\ t.raw = move.raw /\ t.virtual = move.virtual
  BY DEF Told
<1>2. EffectiveQuote(move.raw, {move.virtual}) = Priced(move)
  BY ClampedIsPriced
<1>3. \/ ix.buy = TRUE /\ ix.event = "buy" /\ name # "boost_buy_and_burn"
      \/ ix.buy = FALSE /\ ix.event = "sell" /\ name # "boost_buy_and_burn"
      \/ ix.buy = TRUE /\ ix.event = "boost" /\ name = "boost_buy_and_burn"
  BY Instructions
<1>4. SUFFICES EventAmounts(Payload(ix.event, t, version), ix.buy)
                 = SingleAmounts(name, version, move)
  OBVIOUS
<1>5. /\ version = "cut" => SingleAmounts(name, version, move) = {}
      /\ version = "new" \/ (version = "old" /\ name = "boost_buy_and_burn") =>
           SingleAmounts(name, version, move) = AmountsRead(t, EffectiveQuote(t.raw, {t.virtual}))
      /\ version = "old" /\ name # "boost_buy_and_burn" =>
           SingleAmounts(name, version, move) = AmountsRead(t, t.raw)
  BY <1>1, <1>2 DEF SingleAmounts, Quoted, AmountsRead
<1> HIDE DEF t, ix
<1>6. CASE ix.buy = TRUE /\ ix.event = "buy" /\ name # "boost_buy_and_burn"
  <2>1. Payload(ix.event, t, version) = BuyPayload(t, version)
    BY <1>6 DEF Payload
  <2>2. EventAmounts(BuyPayload(t, version), TRUE) = SingleAmounts(name, version, move)
    BY <1>1, <1>5, <1>6, BuyReads
  <2>3. QED BY <1>6, <2>1, <2>2
<1>7. CASE ix.buy = FALSE /\ ix.event = "sell" /\ name # "boost_buy_and_burn"
  <2>1. Payload(ix.event, t, version) = SellPayload(t, version)
    BY <1>7 DEF Payload
  <2>2. EventAmounts(SellPayload(t, version), FALSE) = SingleAmounts(name, version, move)
    BY <1>5, <1>7, SellReads
  <2>3. QED BY <1>7, <2>1, <2>2
<1>8. CASE ix.buy = TRUE /\ ix.event = "boost" /\ name = "boost_buy_and_burn"
  <2>1. Payload(ix.event, t, version) = BoostPayload(t, version)
    BY <1>8 DEF Payload
  <2>2. EventAmounts(BoostPayload(t, version), TRUE) = SingleAmounts(name, version, move)
    BY <1>5, <1>8, BoostReads
  <2>3. QED BY <1>8, <2>1, <2>2
<1>9. QED BY <1>3, <1>6, <1>7, <1>8

LEMMA SinglePoolKeeps ==
    ASSUME Inv, NEW name \in DOMAIN TradeIx, NEW version \in {"new", "old", "cut", "missing"},
           SinglePool(name, version)
    PROVE  Inv'
<1> DEFINE ix  == TradeIx[name]
           h   == HopAt(1)
           Req(args) == RequestedAmounts(args, ix.exactIn)
           Got(move, len) ==
               IF success' /\ version # "missing"
               THEN EventAmounts(Payload(ix.event, Told(move, h.pool, len), version), ix.buy)
               ELSE {}
<1>1. PICK move \in SingleMoves, len \in NameLengths, args \in Requests(success') :
        /\ trade' = [version |-> version, move |-> move, name |-> len, args |-> args]
        /\ fills' = IF ~Eligible(h) THEN <<>>
                    ELSE <<IF Got(move, len) # {}
                           THEN EventFill(h, name, ix.buy, CHOOSE a \in Got(move, len) : TRUE)
                           ELSE Fill(h, name, ix.buy, "instruction_request", Req(args)[1],
                                     Req(args)[2], <<0, 0>>)>>
  BY DEF SinglePool, HopAt
<1>2. /\ pc = "route" /\ Len(route) = 1 /\ pc' = "done" /\ single' = name /\ success' \in BOOLEAN
      /\ UNCHANGED <<route, row, hops, events, nextHop, current, sides>>
  BY DEF SinglePool
<1>3. TypeOK /\ RouteInv /\ InRoute /\ route # <<>> /\ hops = <<>>
  <2>1. route # <<>>
    <3>1. Len(<<>>) # 1
      OBVIOUS
    <3>2. QED BY <1>2, <3>1, Zenon
  <2>2. QED BY <1>2, <2>1 DEF Inv, RouteInv
<1>4. /\ name # "none" /\ ix.buy \in BOOLEAN /\ ix.exactIn \in BOOLEAN
      /\ ix.exactIn <=> name \in {"buy_exact_quote_in", "buy_exact_quote_in_v2",
                                  "boost_buy_and_burn"}
  BY Instructions
<1>5. move \in Moves /\ len \in Nat
  BY RouteAssumption
<1> DEFINE a == Amounts(move.token, move.volume, move.base, Quoted(name, version, move))
           f == fills'[1]
<1>6. Got(move, len) = IF success' /\ version \in {"new", "old"} THEN {a} ELSE {}
  <2>1. version \in {"new", "old", "cut"} =>
          EventAmounts(Payload(ix.event, Told(move, h.pool, len), version), ix.buy)
            = SingleAmounts(name, version, move)
    BY <1>5, SingleReads
  <2>2. SingleAmounts(name, version, move) = IF version = "cut" THEN {} ELSE {a}
    BY DEF SingleAmounts
  <2> HIDE DEF a
  <2>3. QED BY <2>1, <2>2
<1>7. <<Req(args)[1], Req(args)[2]>> = IF ix.exactIn THEN <<Asked[2], Asked[1]>>' ELSE Asked'
  <2>1. trade'.args = args /\ (args = <<Arg1>> \/ args = <<Arg1, Arg2>>)
    <3>1. trade'.args = args
      BY <1>1
    <3>2. args = <<Arg1>> \/ args = <<Arg1, Arg2>>
      BY <1>1, Zenon DEF Requests
    <3>3. QED BY <3>1, <3>2
  <2>2. CASE args = <<Arg1>>
    BY <1>4, <2>1, <2>2 DEF RequestedAmounts, Asked
  <2>3. CASE args = <<Arg1, Arg2>>
    BY <1>4, <2>1, <2>3 DEF RequestedAmounts, Asked
  <2>4. QED BY <2>1, <2>2, <2>3
<1> HIDE DEF Got, h, ix, Req
<1>8. CASE ~Eligible(h)
  <2>1. fills' = <<>> /\ Len(fills') = 0 /\ DOMAIN fills' = {}
    BY <1>1, <1>8
  <2>2. AmountsDecoded' /\ IsSequence(fills')
    BY <2>1, EmptySeq DEF AmountsDecoded, IsSequence
  <2>3. TypeOK'
    BY <1>2, <1>3, <1>4, <2>1, RouteAssumption DEF TypeOK
  <2>4. RouteInv'
    BY <1>2, <1>3, <1>4, <2>1 DEF RouteInv, HopAt
  <2>5. QED BY <1>2, <1>4, <2>2, <2>3, <2>4 DEF Inv, RouteDone
<1>9. CASE Eligible(h)
  <2>1. fills' = <<f>> /\ Len(fills') = 1 /\ DOMAIN fills' = {1}
    BY <1>1, <1>9
  <2>2. IsSequence(fills')
    <3>1. <<f>> \in Seq({f}) /\ {<<f>>[i] : i \in {1}} = {f}
      <4> HIDE DEF f
      <4>1. QED OBVIOUS
    <3>2. QED BY <2>1, <3>1 DEF IsSequence
  <2>3. TypeOK'
    BY <1>2, <1>3, <1>4, <2>1, RouteAssumption DEF TypeOK
  <2>4. RouteInv'
    BY <1>2, <1>3, <1>4 DEF RouteInv, HopAt
  <2>5. trade'.move = move /\ trade'.version = version
    BY <1>1
  <2>6. AmountsDecoded'
    <3>1. CASE success' /\ version \in {"new", "old"}
      <4>1. Got(move, len) # {} /\ (CHOOSE x \in Got(move, len) : TRUE) = a
        BY <1>6, <3>1
      <4>2. f = EventFill(h, name, ix.buy, a)
        BY <1>1, <1>9, <4>1
      <4>3. /\ f.source = "event" /\ f.token = move.token /\ f.volume = move.volume
            /\ f.reserves = <<move.base, Quoted(name, version, move)>>
        BY <4>2 DEF EventFill, Fill, Amounts
      <4> HIDE DEF f, a
      <4>4. QED BY <1>2, <1>4, <2>1, <2>5, <3>1, <4>3 DEF AmountsDecoded, Quoted
    <3>2. CASE ~(success' /\ version \in {"new", "old"})
      <4>1. Got(move, len) = {}
        BY <1>6, <3>2
      <4>2. f = Fill(h, name, ix.buy, "instruction_request", Req(args)[1], Req(args)[2],
                     <<0, 0>>)
        BY <1>1, <1>9, <4>1
      <4>3. /\ f.source = "instruction_request" /\ f.reserves = <<0, 0>>
            /\ f.token = Req(args)[1] /\ f.volume = Req(args)[2]
        BY <4>2 DEF Fill
      <4> HIDE DEF f, a
      <4>4. QED BY <1>2, <1>4, <1>7, <2>1, <2>5, <3>2, <4>3 DEF AmountsDecoded
    <3>3. QED BY <3>1, <3>2
  <2>7. QED BY <1>2, <1>4, <2>2, <2>3, <2>4, <2>6 DEF Inv, RouteDone
<1>10. QED BY <1>8, <1>9

-----------------------------------------------------------------------------
(* Results.                                                                *)

\* The inductive invariant holds.
THEOREM InvCorrect == Spec => []Inv
<1>1. Inv /\ [Next]_vars => Inv'
  <2> SUFFICES ASSUME Inv, [Next]_vars PROVE Inv'
    OBVIOUS
  <2>1. CASE AddHop
    BY <2>1, AddHopKeeps
  <2>2. ASSUME NEW extra \in 0..(AccountsPerHop - 1), Succeeds(extra) PROVE Inv'
    BY <2>2, SucceedsKeeps
  <2>3. ASSUME NEW extra \in 0..(AccountsPerHop - 1), Fails(extra) PROVE Inv'
    BY <2>3, FailsKeeps
  <2>4. CASE SkipEvent
    BY <2>4, SkipEventKeeps
  <2>5. CASE MatchEvent
    BY <2>5, MatchEventKeeps
  <2>6. CASE ChainHop
    BY <2>6, ChainHopKeeps
  <2>7. CASE ChainBreaks
    BY <2>7, ChainBreaksKeeps
  <2>8. CASE Chained
    BY <2>8, ChainedKeeps
  <2>9. CASE RequestHop
    BY <2>9, RequestHopKeeps
  <2>10. CASE ReturnFills
    BY <2>10, ReturnFillsKeeps
  <2>11. ASSUME NEW name \in DOMAIN TradeIx, NEW version \in {"new", "old", "cut", "missing"},
                SinglePool(name, version)
         PROVE  Inv'
    BY <2>11, SinglePoolKeeps
  <2>12. CASE UNCHANGED vars
    <3>1. UNCHANGED <<pc, single, trade, route, success, row, hops, events, nextHop, current,
                      sides, fills>>
      BY <2>12 DEF vars
    <3>2. /\ (Telling' <=> Telling) /\ Recordable' = Recordable /\ (Ambiguous' <=> Ambiguous)
          /\ ExecutedFills' = ExecutedFills /\ RequestedFills' = RequestedFills
          /\ \A k : RecordableBefore(k)' = RecordableBefore(k)
          /\ \A i : HopAt(i)' = HopAt(i)
      BY <3>1, SameRoute
    <3>3. TypeOK' /\ RouteInv'
      BY <3>1, <3>2 DEF Inv, TypeOK, RouteInv
    <3>4. SidesInv' <=> SidesInv
      BY <3>1, <3>2 DEF SidesInv, FedTo, PassedFrom
    <3>5. (InRoute' <=> InRoute) /\ (InSides' <=> InSides) /\ (RouteDone' <=> RouteDone)
      BY <3>1, <3>4 DEF InRoute, InSides, RouteDone
    <3>6. InEvents' <=> InEvents
      BY <3>1, <3>2 DEF InEvents, DoneBefore
    <3>7. InRequests' <=> InRequests
      BY <3>1, <3>2, <3>4 DEF InRequests, DoneBefore
    <3>8. (Succeeded' <=> Succeeded) /\ (Failed' <=> Failed)
      BY <3>1, <3>2, <3>4 DEF Succeeded, Failed
    <3>9. AmountsDecoded' <=> AmountsDecoded
      BY <3>1 DEF AmountsDecoded, Asked
    <3>10. QED BY <3>1, <3>3, <3>5, <3>6, <3>7, <3>8, <3>9 DEF Inv
  <2>13. QED
    BY <2>1, <2>2, <2>3, <2>4, <2>5, <2>6, <2>7, <2>8, <2>9, <2>10, <2>11, <2>12 DEF Next
<1>2. QED BY <1>1, InitInv, PTL DEF Spec

\* The variables stay within their types, and no list of fills, hops or sides
\* is longer than the route.
THEOREM TypeCorrect == Spec => []TypeOK
<1>1. Inv => TypeOK
  BY DEF Inv
<1>2. QED BY <1>1, InvCorrect, PTL

\* The state when a route has been handled.
LEMMA AtDone ==
    ASSUME Inv, RouteDone
    PROVE  /\ RouteInv /\ hops = Seen /\ route # <<>> /\ Len(route) \in Nat /\ Len(route) >= 1
           /\ DOMAIN route = 1..Len(route)
           /\ success => Lists(fills, Recordable, ExecutedFills)
           /\ ~success => Failed
<1>1. pc = "done" /\ single = "none" /\ RouteInv
  BY DEF RouteDone, Inv
<1>2. hops = Seen /\ route # <<>>
  BY <1>1, HopsSeen DEF RouteInv
<1>3. QED BY <1>1, <1>2, RouteFacts DEF Inv, Succeeded

\* The fields of the fills of a route that succeeded.
LEMMA ExecutedFields ==
    ASSUME Inv, RouteDone, NEW i \in DOMAIN route
    PROVE  LET f == ExecutedFills[i] IN
           /\ f.base = Base(route[i]) /\ f.quote = Quote(route[i]) /\ f.pool = PoolOf(route[i])
           /\ f.buy = route[i].buy /\ f.source = "event"
           /\ f.token = HopMoves[i].token /\ f.volume = HopMoves[i].volume
           /\ f.reserves = <<HopMoves[i].base, Priced(HopMoves[i])>>
           /\ f.kind = HopType(hops, HopAt(i), route[i].buy)
<1>1. ExecutedFills[i] = ExecutedFill(i)
  BY DEF ExecutedFills
<1>2. QED BY <1>1 DEF ExecutedFill, EventFill, Fill, Amounts, HopAt

\* And of those of one that failed.
LEMMA RequestedFields ==
    ASSUME Inv, RouteDone, NEW i \in DOMAIN route
    PROVE  LET f     == RequestedFills[i]
               first == IF i = 1 THEN Asked[1] ELSE 0
               last  == IF i = Len(route) THEN Asked[2] ELSE 0
           IN /\ f.base = Base(route[i]) /\ f.quote = Quote(route[i])
              /\ f.pool = PoolOf(route[i]) /\ f.buy = sides[i]
              /\ f.source = "instruction_request" /\ f.reserves = <<0, 0>>
              /\ f.token = (IF sides[i] THEN last ELSE first)
              /\ f.volume = IF sides[i] THEN first ELSE last
              /\ f.kind = HopType(hops, HopAt(i), sides[i])
<1>1. RequestedFills[i] = RequestedFill(i)
  BY DEF RequestedFills
<1>2. hops[i] = HopAt(i) /\ Len(hops) = Len(route)
  BY AtDone, SeenFacts
<1>3. HopAt(i).base = Base(route[i]) /\ HopAt(i).quote = Quote(route[i])
      /\ HopAt(i).pool = PoolOf(route[i])
  BY DEF HopAt
<1>4. QED BY <1>1, <1>2, <1>3 DEF RequestedFill, Fill, RequestedAmounts, Asked

(* A successful route gives one fill per recordable hop, in route order,   *)
(* with the side and the amounts of that very hop.                         *)
THEOREM EventFillsCorrect == Spec => []EventFillsMatchRoute
<1>1. Inv => EventFillsMatchRoute
  <2> SUFFICES ASSUME Inv, RouteDone, success
               PROVE  \E at \in [DOMAIN fills -> DOMAIN route] :
                         /\ Enumerates(at, Recordable)
                         /\ \A k \in DOMAIN fills :
                               LET move == HopMoves[at[k]] IN
                               /\ IsOf(fills[k], at[k])
                               /\ fills[k].token = move.token /\ fills[k].volume = move.volume
    BY DEF EventFillsMatchRoute
  <2>1. Lists(fills, Recordable, ExecutedFills) /\ DOMAIN ExecutedFills = DOMAIN route
    BY AtDone DEF ExecutedFills
  <2>2. PICK at \in [DOMAIN fills -> DOMAIN route] :
          Enumerates(at, Recordable) /\ \A k \in DOMAIN fills : fills[k] = ExecutedFills[at[k]]
    BY <2>1 DEF Lists
  <2>3. ASSUME NEW k \in DOMAIN fills
        PROVE  LET move == HopMoves[at[k]] IN
               /\ IsOf(fills[k], at[k])
               /\ fills[k].token = move.token /\ fills[k].volume = move.volume
    <3>1. at[k] \in DOMAIN route /\ fills[k] = ExecutedFills[at[k]]
      BY <2>2
    <3>2. QED BY <3>1, ExecutedFields DEF IsOf
  <2>4. QED BY <2>2, <2>3
<1>2. QED BY <1>1, InvCorrect, PTL

\* The sides found give a path of mints through the hops.
LEMMA PathOfSides ==
    ASSUME RouteInv, hops = Seen, SidesInv, Len(sides) = Len(route), route # <<>>
    PROVE  Paths # {}
<1> DEFINE n == Len(route)
           p == [i \in 1..(n + 1) |-> IF i = n + 1 THEN current ELSE FedTo(i)]
<1>1. n \in Nat /\ n >= 1 /\ DOMAIN route = 1..n /\ \A i \in 1..n : route[i] \in Hop
  BY RouteFacts
<1>2. ASSUME NEW i \in 1..n
      PROVE  /\ FedTo(i) \in Mints /\ {FedTo(i), PassedFrom(i)} = {route[i].in, route[i].out}
             /\ (IF i = n THEN current ELSE FedTo(i + 1)) = PassedFrom(i)
  <2>1. /\ hops[i].base = Base(route[i]) /\ hops[i].quote = Quote(route[i])
        /\ hops[i].base \in Mints /\ hops[i].quote \in Mints
    BY SeenFacts
  <2>2. {Base(route[i]), Quote(route[i])} = {route[i].in, route[i].out}
    BY <1>1, HopMints
  <2>3. QED BY <2>1, <2>2 DEF FedTo, PassedFrom, SidesInv
<1>3. current \in Mints
  BY DEF SidesInv
<1>4. p \in [1..(n + 1) -> Mints]
  <2>1. ASSUME NEW i \in 1..(n + 1) PROVE (IF i = n + 1 THEN current ELSE FedTo(i)) \in Mints
    <3>1. i = n + 1 \/ i \in 1..n
      BY <1>1
    <3>2. QED BY <1>2, <1>3, <3>1
  <2>2. QED BY <2>1
<1>5. ASSUME NEW i \in 1..n PROVE {p[i], p[i + 1]} = {route[i].in, route[i].out}
  <2>1. i \in 1..(n + 1) /\ i + 1 \in 1..(n + 1) /\ i # n + 1 /\ (i + 1 = n + 1 <=> i = n)
    BY <1>1
  <2>2. p[i] = FedTo(i) /\ p[i + 1] = PassedFrom(i)
    BY <1>2, <2>1
  <2>3. QED BY <1>2, <2>2
<1> HIDE DEF p
<1>6. p \in Paths
  BY <1>1, <1>4, <1>5 DEF Paths
<1>7. QED BY <1>6

(* A failed route that chains gives a fill per recordable hop, with the    *)
(* side it would have traded and the requested amounts at its two ends; an *)
(* ambiguous one, and one that no path of mints fits, gives none.          *)
THEOREM FailedFillsCorrect == Spec => []FailedFillsMatchRoute
<1>1. Inv => FailedFillsMatchRoute
  <2> SUFFICES ASSUME Inv, RouteDone, ~success
               PROVE  /\ Paths = {} \/ (Ambiguous /\ ~row) => fills = <<>>
                      /\ Chains(route) /\ (row \/ ~Ambiguous) =>
                           \E at \in [DOMAIN fills -> DOMAIN route] :
                              /\ Enumerates(at, Recordable)
                              /\ \A k \in DOMAIN fills : LET i == at[k] IN
                                   /\ IsOf(fills[k], i)
                                   /\ AmountOf(fills[k], route[i].in) = IF i = 1 THEN Asked[1] ELSE 0
                                   /\ AmountOf(fills[k], route[i].out)
                                        = IF i = Len(route) THEN Asked[2] ELSE 0
    BY DEF FailedFillsMatchRoute
  <2>1. /\ RouteInv /\ hops = Seen /\ route # <<>> /\ Failed /\ DOMAIN route = 1..Len(route)
    BY AtDone
  <2>2. CASE fills = <<>> /\ ~Telling
    BY <2>2 DEF Telling
  <2>3. CASE SidesInv /\ Len(sides) = Len(route) /\ Lists(fills, Recordable, RequestedFills)
    <3>1. Paths # {} /\ (row \/ ~Ambiguous)
      BY <2>1, <2>3, PathOfSides DEF SidesInv
    <3>2. ASSUME Chains(route)
          PROVE  \E at \in [DOMAIN fills -> DOMAIN route] :
                    /\ Enumerates(at, Recordable)
                    /\ \A k \in DOMAIN fills : LET i == at[k] IN
                         /\ IsOf(fills[k], i)
                         /\ AmountOf(fills[k], route[i].in) = IF i = 1 THEN Asked[1] ELSE 0
                         /\ AmountOf(fills[k], route[i].out) = IF i = Len(route) THEN Asked[2] ELSE 0
      <4>1. DOMAIN RequestedFills = DOMAIN route
        BY DEF RequestedFills
      <4>2. PICK at \in [DOMAIN fills -> DOMAIN route] :
              Enumerates(at, Recordable) /\ \A k \in DOMAIN fills : fills[k] = RequestedFills[at[k]]
        BY <2>3, <4>1 DEF Lists
      <4>3. \A i \in 1..Len(route) : sides[i] = route[i].buy
        BY <2>3, <3>2 DEF SidesInv
      <4>4. ASSUME NEW k \in DOMAIN fills, NEW i \in DOMAIN route, i = at[k]
            PROVE  /\ IsOf(fills[k], i)
                   /\ AmountOf(fills[k], route[i].in) = IF i = 1 THEN Asked[1] ELSE 0
                   /\ AmountOf(fills[k], route[i].out) = IF i = Len(route) THEN Asked[2] ELSE 0
        <5> DEFINE f     == RequestedFills[i]
                   first == IF i = 1 THEN Asked[1] ELSE 0
                   last  == IF i = Len(route) THEN Asked[2] ELSE 0
        <5>1. fills[k] = f /\ sides[i] = route[i].buy
          BY <2>1, <4>2, <4>3, <4>4
        <5>2. /\ f.base = Base(route[i]) /\ f.quote = Quote(route[i])
              /\ f.pool = PoolOf(route[i]) /\ f.buy = route[i].buy
              /\ f.token = (IF route[i].buy THEN last ELSE first)
              /\ f.volume = IF route[i].buy THEN first ELSE last
          BY <5>1, RequestedFields
        <5> HIDE DEF f, first, last
        <5>3. route[i] \in Hop /\ route[i].in # route[i].out /\ route[i].buy \in BOOLEAN
          BY <2>1, RouteFacts
        <5>4. IsOf(f, i)
          BY <5>2 DEF IsOf
        <5>5. CASE route[i].buy = TRUE
          <6>1. f.base = route[i].out /\ f.token = last /\ f.volume = first
            BY <5>2, <5>3, <5>5, HopMints
          <6>2. AmountOf(f, route[i].in) = first /\ AmountOf(f, route[i].out) = last
            BY <5>3, <6>1 DEF AmountOf
          <6>3. QED BY <5>1, <5>4, <6>2 DEF first, last
        <5>6. CASE route[i].buy = FALSE
          <6>1. f.base = route[i].in /\ f.token = first /\ f.volume = last
            BY <5>2, <5>3, <5>6, HopMints
          <6>2. AmountOf(f, route[i].in) = first /\ AmountOf(f, route[i].out) = last
            BY <5>3, <6>1 DEF AmountOf
          <6>3. QED BY <5>1, <5>4, <6>2 DEF first, last
        <5>7. QED BY <5>3, <5>5, <5>6
      <4>5. \A k \in DOMAIN fills : at[k] \in DOMAIN route
        OBVIOUS
      <4>6. QED BY <4>2, <4>4, <4>5
    <3>3. QED BY <3>1, <3>2
  <2>4. QED BY <2>1, <2>2, <2>3 DEF Failed
<1>2. QED BY <1>1, InvCorrect, PTL

\* Every fill of a route is of one of its hops and has the type multi_hop_fills
\* gives that hop, with its side if the route chains.
LEMMA FillsOfHops ==
    ASSUME Inv, RouteDone, NEW k \in DOMAIN fills
    PROVE  \E i \in DOMAIN route :
              /\ success => fills[k] = ExecutedFills[i]
              /\ ~success => fills[k] = RequestedFills[i]
              /\ fills[k].base = Base(route[i])
              /\ Chains(route) => fills[k].kind = HopType(hops, HopAt(i), route[i].buy)
<1>1. success \in BOOLEAN /\ DOMAIN route = 1..Len(route)
  BY AtDone DEF Inv, TypeOK
<1>2. CASE success
  <2>1. Lists(fills, Recordable, ExecutedFills) /\ DOMAIN ExecutedFills = DOMAIN route
    BY <1>2, AtDone DEF ExecutedFills
  <2>2. PICK i \in DOMAIN route : fills[k] = ExecutedFills[i]
    BY <2>1 DEF Lists
  <2>3. fills[k].base = Base(route[i]) /\ fills[k].kind = HopType(hops, HopAt(i), route[i].buy)
    BY <2>2, ExecutedFields
  <2>4. QED BY <1>2, <2>2, <2>3
<1>3. CASE ~success
  <2>1. SidesInv /\ Len(sides) = Len(route) /\ Lists(fills, Recordable, RequestedFills)
    <3>1. Failed /\ fills # <<>>
      BY <1>3, AtDone
    <3>2. QED BY <3>1 DEF Failed
  <2>2. DOMAIN RequestedFills = DOMAIN route
    BY DEF RequestedFills
  <2>3. PICK i \in DOMAIN route : fills[k] = RequestedFills[i]
    BY <2>1, <2>2 DEF Lists
  <2>4. fills[k].base = Base(route[i]) /\ fills[k].kind = HopType(hops, HopAt(i), sides[i])
    BY <2>3, RequestedFields
  <2>5. Chains(route) => sides[i] = route[i].buy
    BY <1>1, <2>1 DEF SidesInv
  <2>6. QED BY <1>3, <2>3, <2>4, <2>5
<1>4. QED BY <1>1, <1>2, <1>3

(* On a route of one direction that visits no mint twice, a fill is tagged *)
(* as routed exactly when its coin is at neither end of the route.         *)
THEOREM RoutedCorrect == Spec => []RoutedExactly
<1>1. Inv => RoutedExactly
  <2> DEFINE n == Len(route)
  <2> SUFFICES ASSUME Inv, RouteDone, Chains(route),
                      \A i, j \in DOMAIN route : route[i].buy = route[j].buy,
                      \A i, j \in DOMAIN route : i # j => route[i].in # route[j].in,
                      \A i \in DOMAIN route : route[i].in # route[n].out,
                      NEW k \in DOMAIN fills
               PROVE  fills[k].kind = "multi_hop_swap_routed" <=>
                        fills[k].base \notin {route[1].in, route[n].out}
    BY DEF RoutedExactly
  <2>1. /\ RouteInv /\ hops = Seen /\ n \in Nat /\ n >= 1 /\ DOMAIN route = 1..n
        /\ \A i \in 1..n : route[i] \in Hop /\ route[i].in # route[i].out
                           /\ route[i].buy \in BOOLEAN
    BY AtDone, RouteFacts
  <2>2. PICK i \in DOMAIN route :
          /\ fills[k].base = Base(route[i])
          /\ fills[k].kind = HopType(hops, HopAt(i), route[i].buy)
    BY FillsOfHops
  <2>3. /\ Len(hops) = n /\ hops[1].base = Base(route[1]) /\ hops[n].base = Base(route[n])
        /\ HopAt(i).base = Base(route[i])
    BY <2>1, SeenFacts DEF HopAt
  <2>4. fills[k].kind = "multi_hop_swap_routed" <=> IsRouted(hops, Base(route[i]), route[i].buy)
    BY <2>2, <2>3 DEF HopType
  <2>5. 1 \in 1..n /\ n \in 1..n /\ i \in 1..n
    BY <2>1
  <2>6. CASE route[i].buy = TRUE
    <3>1. IsRouted(hops, Base(route[i]), route[i].buy) <=> Base(route[n]) # Base(route[i])
      BY <2>3, <2>6 DEF IsRouted
    <3>2. Base(route[i]) = route[i].out /\ Base(route[n]) = route[n].out
      BY <2>1, <2>5, <2>6, HopMints
    <3>3. route[i].out # route[1].in
      <4>1. CASE i = n
        BY <2>1, <2>5, <4>1
      <4>2. CASE i # n
        <5>1. i \in 1..(n - 1) /\ i + 1 \in 1..n /\ i + 1 # 1
          BY <2>1, <2>5, <4>2
        <5>2. route[i].out = route[i + 1].in
          BY <5>1 DEF Chains
        <5>3. QED BY <2>1, <2>5, <5>1, <5>2
      <4>3. QED BY <4>1, <4>2
    <3>4. QED BY <2>2, <2>4, <3>1, <3>2, <3>3
  <2>7. CASE route[i].buy = FALSE
    <3>1. IsRouted(hops, Base(route[i]), route[i].buy) <=> Base(route[1]) # Base(route[i])
      BY <2>3, <2>7 DEF IsRouted
    <3>2. Base(route[i]) = route[i].in /\ Base(route[1]) = route[1].in
      BY <2>1, <2>5, <2>7, HopMints
    <3>3. route[i].in # route[n].out
      BY <2>1, <2>5
    <3>4. QED BY <2>2, <2>4, <3>1, <3>2, <3>3
  <2>8. QED BY <2>1, <2>5, <2>6, <2>7
<1>2. QED BY <1>1, InvCorrect, PTL

(* A fill made from an event has the amounts of its trade and the reserves *)
(* it left, the quote side clamped to u64; any other has the requested     *)
(* amounts, in the order of its instruction.                               *)
THEOREM AmountsCorrect == Spec => []AmountsDecoded
<1>1. Inv => AmountsDecoded
  <2> SUFFICES ASSUME Inv, pc = "done", single = "none", NEW k \in DOMAIN fills
               PROVE  /\ fills[k].source = "event" => success
                      /\ fills[k].source # "event" => fills[k].reserves = <<0, 0>>
                      /\ fills[k].source = "event" =>
                           \E i \in DOMAIN route :
                              fills[k].reserves = <<HopMoves[i].base, Priced(HopMoves[i])>>
    BY DEF Inv, AmountsDecoded
  <2>1. RouteDone
    BY DEF RouteDone
  <2>2. PICK i \in DOMAIN route : /\ success => fills[k] = ExecutedFills[i]
                                  /\ ~success => fills[k] = RequestedFills[i]
    BY <2>1, FillsOfHops
  <2>3. CASE success
    BY <2>1, <2>2, <2>3, ExecutedFields
  <2>4. CASE ~success
    BY <2>1, <2>2, <2>4, RequestedFields
  <2>5. QED BY <2>3, <2>4
<1>2. QED BY <1>1, InvCorrect, PTL

============================================================================
