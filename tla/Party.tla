------------------------------- MODULE Party -------------------------------
(***************************************************************************)
(* Parties (party.cpp, and their handlers in game.cpp and player.cpp).  A  *)
(* party knows its leader, its members in the order they joined, and those *)
(* it has invited; a player knows its party and the parties that invited   *)
(* it.  The two sides are kept by hand: a party is freed when it has       *)
(* neither members nor invitations, and whoever still points to it then    *)
(* points to freed memory.  Identifiers of freed parties are used again.   *)
(* The event handlers under data/ veto nothing.                            *)
(***************************************************************************)
EXTENDS Naturals, Sequences, FiniteSets

CONSTANTS Companions, PartyIds, NoLeader, NoParty

ASSUME PartyAssumption == NoLeader \notin Companions /\ NoParty \notin PartyIds

VARIABLES
    party,       \* what each Party holds; Free when it is not allocated
    partyOf,     \* Player::party
    invitedTo,   \* Player::invitePartyList
    inGame       \* the players that are online

PartyVars == <<party, partyOf, invitedTo, inGame>>

Parties == [leader : Companions \cup {NoLeader}, members : Seq(Companions),
            invitees : SUBSET Companions, ticks : SUBSET Companions,
            sharedExpActive : BOOLEAN, sharedExpEnabled : BOOLEAN]

Free == [leader |-> NoLeader, members |-> <<>>, invitees |-> {}, ticks |-> {},
         sharedExpActive |-> FALSE, sharedExpEnabled |-> FALSE]

PartyTypeOK ==
    /\ party \in [PartyIds -> Parties]
    /\ \A id \in PartyIds :
        party[id].leader = NoLeader => party[id] = Free
    /\ partyOf \in [Companions -> PartyIds \cup {NoParty}]
    /\ invitedTo \in [Companions -> SUBSET PartyIds]
    /\ inGame \subseteq Companions

PartyInit ==
    /\ party = [id \in PartyIds |-> Free]
    /\ partyOf = [p \in Companions |-> NoParty]
    /\ invitedTo = [p \in Companions |-> {}]
    /\ inGame = Companions

-----------------------------------------------------------------------------
Members(r) == {r.members[i] : i \in DOMAIN r.members}
Everyone(r) == Members(r) \cup ({r.leader} \cap Companions)

(* Party::empty *)
Empty(r) == r.members = <<>> /\ r.invitees = {}

(* memberList.erase(find(p)) *)
Without(s, p) ==
    IF \A i \in DOMAIN s : s[i] # p THEN s
    ELSE LET found == CHOOSE i \in DOMAIN s :
                        s[i] = p /\ \A j \in 1 .. i - 1 : s[j] # p IN
         [i \in 1 .. Len(s) - 1 |-> IF i < found THEN s[i] ELSE s[i + 1]]

(* canEnableSharedExperience: everybody has hit or healed since joining;   *)
(* levels and distances are left out.                                      *)
CanEnable(r) == r.members # <<>> /\ Everyone(r) \subseteq r.ticks

NotUpdatedMutant(r) == r

UpdateShared(r) ==
    IF r.sharedExpActive THEN [r EXCEPT !.sharedExpEnabled = CanEnable(r)]
    ELSE r

(* passPartyLeadership: the old leader becomes the first member. *)
Passed(r, p) ==
    UpdateShared([r EXCEPT !.leader = p,
                           !.members = <<r.leader>> \o Without(@, p)])

AnyMemberMissingMutant(r, p) == r.leader = p /\ Len(r.members) <= 2

(* leaveParty: a leader is followed by the first member, unless nobody     *)
(* would be left to lead; then, or when the party is empty, it ends.       *)
MissingLeader(r, p) ==
    /\ r.leader = p
    /\ r.members = <<>> \/ (Len(r.members) = 1 /\ r.invitees = {})

AfterLeaving(r, p) ==
    LET led == IF r.leader = p /\ ~MissingLeader(r, p)
               THEN Passed(r, Head(r.members)) ELSE r
        left == UpdateShared([led EXCEPT !.members = Without(@, p),
                                         !.ticks = @ \ {p}])
    IN IF MissingLeader(r, p) \/ Empty(left) THEN Free ELSE left

(* removeInvite *)
AfterRemoval(r, p) ==
    LET s == [r EXCEPT !.invitees = @ \ {p}] IN IF Empty(s) THEN Free ELSE s

(* disband: the parties that end release those in their lists.  Publish    *)
(* also takes p out of its party, if it leaves, and out of the parties in  *)
(* ids, whose invitations p no longer holds.                               *)
Ending(new) == {id \in PartyIds : party[id] # Free /\ new[id] = Free}

ReleasedFrom(ended, q) ==
    partyOf[q] \in ended /\ q \in Everyone(party[partyOf[q]])

Uninvited(ended, q) == {id \in ended : q \in party[id].invitees}

Publish(new, p, leaves, ids) ==
    LET ended == Ending(new) IN
    /\ party' = new
    /\ partyOf' = [q \in Companions |->
            IF (q = p /\ leaves) \/ ReleasedFrom(ended, q)
            THEN NoParty ELSE partyOf[q]]
    /\ invitedTo' = [q \in Companions |->
            invitedTo[q] \ (Uninvited(ended, q)
                            \cup (IF q = p THEN ids ELSE {}))]

-----------------------------------------------------------------------------
Leads(p) == partyOf[p] # NoParty /\ party[partyOf[p]].leader = p

(* Player::isInviting *)
IsInviting(p, q) == Leads(p) /\ q \in party[partyOf[p]].invitees

(* playerInviteToParty: a player without a party founds one. *)
MayInvite(p, q) ==
    p # q /\ ~IsInviting(q, p) /\ partyOf[q] = NoParty

(* Party::Party *)
Founded(p) == [Free EXCEPT !.leader = p]

Invited(r, q) == [r EXCEPT !.invitees = @ \cup {q}]

InviteToParty(p, q) ==
    /\ {p, q} \subseteq inGame
    /\ MayInvite(p, q)
    /\ \/ /\ Leads(p) /\ ~IsInviting(p, q)
          /\ party' = [party EXCEPT ![partyOf[p]] = Invited(@, q)]
          /\ invitedTo' = [invitedTo EXCEPT ![q] = @ \cup {partyOf[p]}]
          /\ UNCHANGED partyOf
       \/ /\ partyOf[p] = NoParty
          /\ \E id \in PartyIds :
                /\ party[id] = Free
                /\ party' = [party EXCEPT
                              ![id] = Invited(Founded(p), q)]
                /\ partyOf' = [partyOf EXCEPT ![p] = id]
                /\ invitedTo' = [invitedTo EXCEPT ![q] = @ \cup {id}]
    /\ UNCHANGED inGame

(* playerJoinParty and joinParty: the other invitations stay. *)
Joined(r, p) ==
    UpdateShared([r EXCEPT !.invitees = @ \ {p}, !.members = Append(@, p)])

JoinParty(p, l) ==
    LET id == partyOf[l] IN
    /\ {p, l} \subseteq inGame
    /\ IsInviting(l, p)
    /\ partyOf[p] = NoParty
    /\ party' = [party EXCEPT ![id] = Joined(@, p)]
    /\ partyOf' = [partyOf EXCEPT ![p] = id]
    /\ invitedTo' = [invitedTo EXCEPT ![p] = @ \ {id}]
    /\ UNCHANGED inGame

RevokeInvitation(p, q) ==
    LET id == partyOf[p] IN
    /\ {p, q} \subseteq inGame
    /\ IsInviting(p, q)
    /\ Publish([party EXCEPT ![id] = AfterRemoval(@, q)], q, FALSE, {id})
    /\ UNCHANGED inGame

(* playerPassPartyLeadership: only to a player of the same party. *)
PassLeadership(p, q) ==
    /\ {p, q} \subseteq inGame
    /\ Leads(p) /\ p # q /\ partyOf[q] = partyOf[p]
    /\ party' = [party EXCEPT ![partyOf[p]] = Passed(@, q)]
    /\ UNCHANGED <<partyOf, invitedTo, inGame>>

LeaveParty(p) ==
    LET id == partyOf[p] IN
    /\ p \in inGame /\ id # NoParty
    /\ Publish([party EXCEPT ![id] = AfterLeaving(@, p)], p, TRUE, {})
    /\ UNCHANGED inGame

(* playerEnableSharedPartyExperience: switching off leaves the flag that   *)
(* says whether sharing was possible as it was.                            *)
Switched(r, on) ==
    [r EXCEPT !.sharedExpActive = on,
              !.sharedExpEnabled = IF on THEN CanEnable(r) ELSE @]

EnableShared(p, on) ==
    /\ p \in inGame
    /\ Leads(p) /\ party[partyOf[p]].sharedExpActive # on
    /\ party' = [party EXCEPT ![partyOf[p]] = Switched(@, on)]
    /\ UNCHANGED <<partyOf, invitedTo, inGame>>

(* updatePlayerTicks: the player has hit or healed. *)
Ticked(r, p) == UpdateShared([r EXCEPT !.ticks = @ \cup {p}])

HitOrHeal(p) ==
    /\ p \in inGame /\ partyOf[p] # NoParty
    /\ party' = [party EXCEPT ![partyOf[p]] = Ticked(@, p)]
    /\ UNCHANGED <<partyOf, invitedTo, inGame>>

(* Player::onRemoveCreature: clearPartyInvitations, then leaveParty. *)
AfterLogout(p) ==
    [id \in PartyIds |->
        IF id = partyOf[p] THEN AfterLeaving(party[id], p)
        ELSE IF id \in invitedTo[p] THEN AfterRemoval(party[id], p)
        ELSE party[id]]

LogoutCompanion(p) ==
    /\ p \in inGame
    /\ Publish(AfterLogout(p), p, TRUE, invitedTo[p])
    /\ inGame' = inGame \ {p}

LoginCompanion(p) ==
    /\ p \notin inGame
    /\ inGame' = inGame \cup {p}
    /\ UNCHANGED <<party, partyOf, invitedTo>>

PartyNext ==
    \E p \in Companions :
        \/ \E q \in Companions : InviteToParty(p, q)
        \/ \E q \in Companions : JoinParty(p, q)
        \/ \E q \in Companions : RevokeInvitation(p, q)
        \/ \E q \in Companions : PassLeadership(p, q)
        \/ LeaveParty(p)
        \/ \E on \in BOOLEAN : EnableShared(p, on)
        \/ HitOrHeal(p)
        \/ LogoutCompanion(p)
        \/ LoginCompanion(p)

PartySpec == PartyInit /\ [][PartyNext]_PartyVars

-----------------------------------------------------------------------------
(* A player's party lists the player, once, and a party's leader and       *)
(* members point to it; no player points to a party that was freed.        *)
MembershipAgrees ==
    \A id \in PartyIds :
        /\ Everyone(party[id]) = {p \in Companions : partyOf[p] = id}
        /\ Cardinality(Members(party[id])) = Len(party[id].members)
        /\ party[id].leader \notin Members(party[id])

(* A player holds an invitation exactly while the party lists the player   *)
(* among its invitees; none of them refers to a party that was freed.      *)
InvitationsAgree ==
    \A id \in PartyIds :
        party[id].invitees = {p \in Companions : id \in invitedTo[p]}

(* Between two tasks every party has somebody besides its leader: a member *)
(* or an invitee.  A leader alone does not keep a party.                   *)
NoLonelyParty == \A id \in PartyIds : party[id] # Free => ~Empty(party[id])

(* A player that has left the game is in no party and has no invitations,  *)
(* and no party refers to it.                                              *)
LeftBehindNothing ==
    \A p \in Companions \ inGame :
        /\ partyOf[p] = NoParty /\ invitedTo[p] = {}
        /\ \A id \in PartyIds :
            p \notin Everyone(party[id]) \cup party[id].invitees

(* Experience is shared only in a party of two or more in which everybody  *)
(* has hit or healed since joining, whoever came or left meanwhile.        *)
SharingIsEarned ==
    \A id \in PartyIds :
        party[id].sharedExpActive /\ party[id].sharedExpEnabled
        => CanEnable(party[id])

(* Parties are sound: players and parties refer to each other and to none  *)
(* that left or was freed, no leader is alone, and sharing is earned.      *)
PartySound ==
    /\ PartyTypeOK /\ MembershipAgrees /\ InvitationsAgree
    /\ NoLonelyParty /\ LeftBehindNothing /\ SharingIsEarned

(* Nobody loses the party because of somebody else while two others stay:  *)
(* a step takes one player from a party, or ends one of at most two.       *)
PartiesOutliveLeavers ==
    [][\A id \in PartyIds :
        LET before == Everyone(party[id])
            after == Everyone(party'[id]) IN
        \/ Cardinality(before \ after) <= 1
        \/ after = {} /\ Cardinality(before) = 2]_PartyVars
=============================================================================
