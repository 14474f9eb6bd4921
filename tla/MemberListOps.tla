--------------------------- MODULE MemberListOps ---------------------------
(***************************************************************************)
(* What MemberList::insert and its neighbours decide about ONE member id   *)
(* (components/butterfly/src/member.rs).  A MemberList keeps four maps     *)
(* keyed by member id; every operation touches the entries of a single id, *)
(* so the entries of an id are gathered here in one "row":                 *)
(*   inc      the incarnation of the Member record, NoRecord without one   *)
(*   health   the entry of the health map, NoHealth without one            *)
(*   suspect  whether the suspect map holds a timer for the id             *)
(*   depart   whether the depart map holds a timer for the id              *)
(***************************************************************************)
EXTENDS Integers

Health == {"Alive", "Suspect", "Confirmed", "Departed"}
NoHealth == "NoHealth"
NoRecord == -1

Incarnation == Nat
IncarnationOrNone == Incarnation \cup {NoRecord}
HealthOrNone == Health \cup {NoHealth}

Row == [inc : IncarnationOrNone, health : HealthOrNone,
        suspect : BOOLEAN, depart : BOOLEAN]
EmptyRow == [inc |-> NoRecord, health |-> NoHealth,
             suspect |-> FALSE, depart |-> FALSE]

HasRecord(r) == r.inc # NoRecord

-----------------------------------------------------------------------------
(* The decision part of insert: it reads the record and the health.         *)

\* The (current, rumored) pairs of equal incarnation that change our mind.
Overrides == {<<"Alive", "Suspect">>, <<"Alive", "Confirmed">>, <<"Alive", "Departed">>,
              <<"Suspect", "Confirmed">>, <<"Suspect", "Departed">>,
              <<"Confirmed", "Departed">>}

\* Mutant: an older incarnation is not refused.
ShareRumor_AnyIncarnation(r, inc, h) ==
    ~HasRecord(r) \/ inc # r.inc \/ <<r.health, h>> \in Overrides

ShareRumor(r, inc, h) ==
    \/ ~HasRecord(r)
    \/ inc > r.inc
    \/ inc = r.inc /\ <<r.health, h>> \in Overrides

\* Mutant: a first-seen suspect starts a timer too, ahead of its record.
StartSuspicion_FirstSight(r, inc, h) ==
    h = "Suspect" /\ (HasRecord(r) => inc = r.inc /\ r.health = "Alive")

StartSuspicion(r, inc, h) ==
    HasRecord(r) /\ inc = r.inc /\ r.health = "Alive" /\ h = "Suspect"

StopSuspicion(r, inc, h) ==
    /\ HasRecord(r)
    /\ h \in {"Confirmed", "Departed"}
    /\ inc > r.inc \/ (inc = r.inc /\ r.health = "Suspect")

StopDeparture(r, inc, h) ==
    /\ HasRecord(r)
    /\ h = "Departed"
    /\ inc > r.inc \/ (inc = r.inc /\ r.health = "Confirmed")

\* insert as one atomic step: the decision and then every write it calls for.
InsertRow(r, inc, h) ==
    IF ShareRumor(r, inc, h)
    THEN [inc     |-> inc,
          health  |-> h,
          suspect |-> (r.suspect \/ StartSuspicion(r, inc, h)) /\ ~StopSuspicion(r, inc, h),
          depart  |-> r.depart /\ ~StopDeparture(r, inc, h)]
    ELSE r

\* insert_health_by_id: the health alone, whatever the incarnation.
HealthRow(r, h) ==
    [r EXCEPT !.health = h,
              !.suspect = @ \/ (h = "Suspect" /\ r.health # h)]

-----------------------------------------------------------------------------
(* Queries of MemberList the other components ask.                          *)

Pingable(r, persistent) == persistent \/ r.health \in {"Alive", "Suspect"}
PersistentAndConfirmed(r, persistent) == persistent /\ r.health = "Confirmed"
InVotingPopulation(r) == r.health \in {"Alive", "Suspect", "Confirmed"}

=============================================================================
