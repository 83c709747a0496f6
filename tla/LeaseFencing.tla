---------------------------- MODULE LeaseFencing ----------------------------
(***************************************************************************)
(* A lease, a holder that stops, and a fencing token: model, receiverAt    *)
(* and status of src/app/src/figures/lease-fencing.ts. Worker A renews its *)
(* lease, pauses, resumes and writes; when its lease lapses meanwhile,     *)
(* worker B takes it and writes. The three functions tell, each in its own *)
(* way, what has happened by a position of the timeline.                   *)
(*                                                                         *)
(* Time is in half seconds, so that all of it is whole.                    *)
(***************************************************************************)
EXTENDS Integers, Sequences, FiniteSets, SequencesExt, FiniteSetsExt, Lists

CONSTANT Params  \* what model is called with, see Param

VARIABLES par, now  \* now: the position shown

HB          == 4
PAUSE_AT    == 8
CLAIM_DELAY == 2
B_WORK      == 3
B_HOLD      == 6
A_TAIL      == 2
T_MAX       == 52
TOKEN(w)    == IF w = "A" THEN 33 ELSE 34

\* The controls of the figure: a pause of up to 20 s, a lease of 3 s to 14 s.
Param == [receiver: {"none", "unchecked", "checked"}, pause: 0 .. 40, ttl: 6 .. 28]

----------------------------------------------------------------------------
(* model.                                                                  *)

resume   == PAUSE_AT + par.pause
lapse    == PAUSE_AT + par.ttl
stale    == resume >= lapse
aRelease == resume + A_TAIL
bClaim   == lapse + CLAIM_DELAY
bWrite   == bClaim + B_WORK
bRelease == bClaim + B_HOLD

\* A's renewals, each HB after the last while it runs.
Beats(from, to) == {from + HB * i : i \in 0 .. (to - from) \div HB}
renewals == Beats(0, PAUSE_AT) \cup (IF stale THEN {} ELSE Beats(resume, aRelease - 1))

outcome == CASE ~stale                   -> "valid"
             [] resume < bWrite          -> "early"
             [] par.receiver = "checked" -> "rejected"
             [] OTHER                    -> "overwrite"

latest == 2 + (IF stale THEN Max({aRelease, bRelease}) ELSE aRelease)
end   == Min({T_MAX, latest})

----------------------------------------------------------------------------
(* What is told of a position.                                             *)

\* The writes in order of time; of two at one time B's, listed first, is first.
writes == IF ~stale THEN <<"A">> ELSE IF resume < bWrite THEN <<"A", "B">> ELSE <<"B", "A">>
at(w)  == IF w = "A" THEN resume ELSE bWrite

\* Mutant: a refused write is gone through like the others.
taken_Refused(t) == Kept(writes, {w \in {"A", "B"} : at(w) <= t})

\* The receiver goes through the writes so far, less a refused one.
taken(t) == Kept(writes, {w \in {"A", "B"} : at(w) <= t /\ ~(w = "A" /\ outcome = "rejected")})
receiverAt(t) ==
  [last |-> IF taken(t) = << >> THEN "none" ELSE Last(taken(t)),
   high |-> Max({0} \cup {TOKEN(w) : w \in ToSet(taken(t))})]

\* The holder of the lease.
lease(t) == CASE t < (IF stale THEN lapse ELSE aRelease) -> "A"
              [] stale /\ t >= bClaim /\ t < bRelease    -> "B"
              [] OTHER                                   -> "none"

----------------------------------------------------------------------------
Init == par \in Params /\ now = 0

\* The position moves on; what is shown of it is a function of it.
Next == now < end /\ now' = now + 1 /\ UNCHANGED par

Over == now = end

----------------------------------------------------------------------------
(* Properties.                                                             *)

\* A has the lease as long as its renewals keep it, or until it releases it; B
\* has it only after A's last renewal has run out.
LeaseKept ==
  lease(now) = "A" <=> now < aRelease /\ \E r \in renewals : r <= now /\ now < r + par.ttl

\* A receiver that checks tokens never lets an older owner have the last word.
Fenced ==
  par.receiver = "checked" /\ receiverAt(now).last # "none"
    => receiverAt(now).high = TOKEN(receiverAt(now).last)

\* The sentence shown from A's write on is true of what the receiver holds.
OutcomeTold ==
  now >= resume =>
    LET r == receiverAt(now)
    IN  CASE outcome = "overwrite" -> r.last = "A" /\ r.high = TOKEN("B")
          [] outcome = "early"     -> (now >= bWrite <=> r.last = "B")
          [] outcome = "rejected"  -> r.last = "B"
          [] OTHER                 -> r.last = "A" /\ r.high = TOKEN("A")

\* Every run the controls allow ends within T_MAX, with the lease free.
RunFits == latest <= T_MAX /\ (Over => lease(now) = "none" /\ receiverAt(now).last # "none")
=============================================================================
