------------------------------ MODULE LegWindow ------------------------------
(***************************************************************************)
(* Which price window a live entry leg is judged against, and what the     *)
(* port lets through (src/live/port.py: leg_take_window, fill_mode, the    *)
(* local refusals of match).                                               *)
(*                                                                         *)
(* The configuration carries the YES band up to three times: flat, in its  *)
(* "strategy" section and in its "consensus_lock" section.  A value can be *)
(* missing or unreadable in any of them, and in the leg.  Prices are ticks *)
(* 1..One, One being the dollar.                                           *)
(***************************************************************************)
EXTENDS Integers

CONSTANTS
    One,        \* the largest price of the venue
    Absent,     \* a value that is not there
    Bad,        \* a value that is there and cannot be read, or is negative
    DefaultLo, DefaultHi,   \* the band when the configuration has none
    DustTop,    \* cash (share x tick) the best level must offer: two dollars
    NextBucket, TargetBucket, NoChannel   \* entry channels

Channels == {NextBucket, TargetBucket, NoChannel}

ASSUME WindowAssumption ==
    /\ One \in Nat \ {0}
    /\ DefaultLo \in 1..One /\ DefaultHi \in 1..One /\ DefaultLo < DefaultHi
    /\ DustTop \in Nat
    /\ Absent \notin Int /\ Bad \notin Int /\ Absent # Bad
    /\ NextBucket # TargetBucket /\ NextBucket # NoChannel /\ TargetBucket # NoChannel

Raw      == Nat \cup {Absent, Bad}
Section  == [lo : Raw, hi : Raw]
Settings == [flat : Section, strategy : Section, consensus_lock : Section]
Leg      == [yes : BOOLEAN, channel : Channels, floor : Raw, cap : Raw]

(* A band bound, a cap or a quote is usable when it is a price: over zero, one at most. *)
Usable(v) == v \in 1..One

(* The first section that has the value; no section: the default. *)
Or(v, w) == IF v = Absent THEN w ELSE v

(* An interval of prices; unusable bounds, or bounds the wrong way round, give none. *)
Band(lo, hi) == [ok |-> Usable(lo) /\ Usable(hi) /\ lo < hi, lo |-> lo, hi |-> hi, closed |-> FALSE]

(* Legs without a channel: the flat values, then the strategy section. *)
yes_price_band(cfg) ==
    Band(Or(Or(cfg.flat.lo, cfg.strategy.lo), DefaultLo), Or(Or(cfg.flat.hi, cfg.strategy.hi), DefaultHi))

(* The target bucket reads what its strategy reads: the consensus_lock section first. *)
ConsensusRaw(section, flat, strategy) == Or(section, Or(flat, strategy))
target_yes_band(cfg) ==
    Band(Or(ConsensusRaw(cfg.consensus_lock.lo, cfg.flat.lo, cfg.strategy.lo), DefaultLo),
         Or(ConsensusRaw(cfg.consensus_lock.hi, cfg.flat.hi, cfg.strategy.hi), DefaultHi))

(* What the consensus strategy itself works with: its section laid over the strategy one. *)
StrategyLo(cfg) == Or(cfg.consensus_lock.lo, cfg.strategy.lo)
StrategyHi(cfg) == Or(cfg.consensus_lock.hi, cfg.strategy.hi)

(* A bound of the leg's own: zero or nothing is no bound, the rest must be a price. *)
Bound(v)    == IF v \in {Absent, 0} THEN 0 ELSE v
Readable(v) == v = Absent \/ v \in 0..One

(* The next bucket's own window, both ends included. *)
OwnWindow(leg) ==
    [ok |-> /\ Readable(leg.floor) /\ Readable(leg.cap)
            /\ Bound(leg.cap) # 0 /\ Bound(leg.floor) < Bound(leg.cap),
     lo |-> Bound(leg.floor), hi |-> Bound(leg.cap), closed |-> TRUE]

NoWindow(leg) == leg.channel # NextBucket \/ (leg.floor = Absent /\ leg.cap = Absent)
leg_take_window(leg, cfg) ==
    IF leg.channel = TargetBucket THEN target_yes_band(cfg)
    ELSE IF NoWindow(leg) THEN yes_price_band(cfg)
    ELSE OwnWindow(leg)

(* A price against a window: the lower end counts in a closed one only. *)
in_yes_band(px, w) == w.lo < px /\ px <= w.hi
AtFloor(px, w)     == w.closed /\ w.lo <= px /\ px <= w.hi

(* The cap an order may lean on, and a quote a leg can be judged by. *)
CapUsable(leg) == Usable(leg.cap)
Quoted(ask)    == ask # Absent /\ Usable(ask)

(* fill_mode: take, or send nothing.  A leg needs a usable cap, a usable window even when it *)
(* is not a YES leg, and a usable quote; a YES leg also a price inside its window.           *)
fill_mode(leg, cfg, ask) ==
    LET w == leg_take_window(leg, cfg) IN
    /\ CapUsable(leg) /\ w.ok /\ Quoted(ask)
    /\ leg.yes => in_yes_band(ask, w) \/ AtFloor(ask, w)

(* match keeps a permitted leg back when the venue states a larger minimum than the shares *)
(* wanted, and when the best level is worth less than two dollars.                         *)
BigEnough(shares, min)   == min \in Nat \ {0} => shares >= min
DeepEnough(ask, offered) == ask * offered >= DustTop

(* The signing domain comes from the book, else from the cache of this process, else from a *)
(* fresh book; known from none of them, the order cannot be signed.                         *)
DomainSources == {"book", "cache", "refetch"}
resolve_neg_risk(known) == known # {}

(* plan_leg_attempts, before the port: nothing at or under the floor, nothing over the cap. *)
PlannedLook(leg, ask) ==
    /\ Usable(ask)
    /\ leg.floor \in Nat /\ leg.cap \in Nat
    /\ leg.floor = 0 \/ leg.floor < ask
    /\ ask <= leg.cap
=============================================================================
