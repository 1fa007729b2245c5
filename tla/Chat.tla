-------------------------------- MODULE Chat --------------------------------
(***************************************************************************)
(* Chat channels (chat.cpp): those of parties and guilds, those of scripts *)
(* and the private ones of players, who speaks and who hears what is said  *)
(* while players join and leave what a channel belongs to, come and go.    *)
(* A channel knows its users and its guests by their Player pointers, and  *)
(* that of a party is found by the Party pointer.  Who belongs to which    *)
(* party is the matter of Party; here players join and leave as they like. *)
(***************************************************************************)
EXTENDS Naturals, FiniteSets

CONSTANTS
    Chatters,     \* players, in the game or not
    GroupIds,     \* addresses of parties, ids of guilds
    MaxPrivate,   \* the ids of private channels, 9900 in the code
    NoChannel,
    NoGroup

GroupKinds == {"party", "guild"}

ChannelIds ==
    (GroupKinds \X GroupIds) \cup {<<"normal", 1>>}
        \cup ({"private"} \X (1..MaxPrivate))

Channels ==
    [users : SUBSET Chatters, invites : SUBSET Chatters,
     owner : Chatters \cup {NoChannel}]

ASSUME ChatAssumption ==
    /\ MaxPrivate \in Nat /\ NoGroup \notin GroupIds
    /\ NoChannel \notin Chatters \cup Channels

VARIABLES
    chat,
    topic         \* the kinds of channels in this behaviour

ChatVars == <<chat, topic>>

Belongings == [Chatters -> [GroupKinds -> GroupIds \cup {NoGroup}]]

ChatTypeOK ==
    chat \in [online : SUBSET Chatters, belongs : Belongings,
              channels : [ChannelIds -> Channels \cup {NoChannel}]]

New(owner) ==
    [users |-> {owner} \ {NoChannel}, invites |-> {}, owner |-> owner]

ChatInit ==
    /\ topic \in {{"party", "normal"}, {"guild"}, {"private"}}
    /\ chat = [online |-> {},
               belongs |-> [p \in Chatters |-> [k \in GroupKinds |-> NoGroup]],
               channels |-> [c \in ChannelIds |->
                                IF c = <<"normal", 1>> THEN New(NoChannel)
                                ELSE NoChannel]]

-----------------------------------------------------------------------------
Exists(w, c) == w.channels[c] # NoChannel

IsInvited(channel, p) == p = channel.owner \/ p \in channel.invites

(* The channel somebody means.  A script decides about a normal one.       *)
GetChannel(w, p, c) ==
    /\ Exists(w, c)
    /\ c[1] \in GroupKinds => w.belongs[p][c[1]] = c[2]
    /\ c[1] = "private" => IsInvited(w.channels[c], p)

AddUser(w, p, c) == [w EXCEPT !.channels[c].users = @ \cup {p}]

RemoveUser(w, p, c) ==
    IF Exists(w, c) THEN [w EXCEPT !.channels[c].users = @ \ {p}] ELSE w

RemoveUserFromChannel(w, p, c) ==
    IF ~GetChannel(w, p, c) \/ p \notin w.channels[c].users THEN w
    ELSE IF w.channels[c].owner = p THEN [w EXCEPT !.channels[c] = NoChannel]
    ELSE RemoveUser(w, p, c)

NoUsers(channel, players) == [channel EXCEPT !.users = @ \ players]

InvitesStayMutant(w, p) ==
    [w EXCEPT !.channels =
        [c \in ChannelIds |->
            IF ~Exists(w, c) \/ w.channels[c].owner = p THEN NoChannel
            ELSE NoUsers(w.channels[c], {p})]]

RemoveUserFromAllChannels(w, p) ==
    [w EXCEPT !.channels =
        [c \in ChannelIds |->
            IF ~Exists(w, c) \/ w.channels[c].owner = p THEN NoChannel
            ELSE [NoUsers(w.channels[c], {p}) EXCEPT !.invites = @ \ {p}]]]

PrivateChannels(w, p) ==
    {c \in ChannelIds : Exists(w, c) /\ w.channels[c].owner = p}

SetParty(w, p, id) == [w EXCEPT !.belongs[p]["party"] = id]

InChannelOfParty(w, p, c) ==
    c[1] = "party" /\ w.belongs[p]["party"] = c[2]

(* sendClosePrivate is called when the player has no party any more, so    *)
(* that the channel is not found.                                          *)
WithoutParties(w, players) ==
    LET left == [w EXCEPT !.belongs =
                    [p \in Chatters |->
                        IF p \in players
                        THEN [w.belongs[p] EXCEPT !["party"] = NoGroup]
                        ELSE w.belongs[p]]]
        leave(c) == {p \in players : InChannelOfParty(left, p, c)}
    IN  [left EXCEPT !.channels =
            [c \in ChannelIds |->
                IF Exists(w, c) THEN NoUsers(w.channels[c], leave(c))
                ELSE NoChannel]]

-----------------------------------------------------------------------------
LoginChatter(p) ==
    /\ p \notin chat.online
    /\ chat' = [chat EXCEPT !.online = @ \cup {p}]

(* A client connects to a character in the game.                           *)
Reconnect(p) == chat' = RemoveUserFromAllChannels(chat, p)

Fellows(p) ==
    {q \in Chatters : /\ chat.belongs[q]["party"] = chat.belongs[p]["party"]
                      /\ chat.belongs[q]["party"] # NoGroup}

LogoutChatter(p) ==
    \E gone \in {{p}, Fellows(p)} :
        chat' = [RemoveUserFromAllChannels(WithoutParties(chat, gone), p)
                    EXCEPT !.online = @ \ {p}]

FoundOrJoinParty(p, id) ==
    /\ chat.belongs[p]["party"] = NoGroup
    /\ chat' = SetParty(chat, p, id)

(* The party ends with one who leaves, or goes on.                         *)
QuitParty(p) ==
    /\ chat.belongs[p]["party"] # NoGroup
    /\ \E gone \in {{p}, Fellows(p)} : chat' = WithoutParties(chat, gone)

SetGuild(p, id) == chat' = [chat EXCEPT !.belongs[p]["guild"] = id]

(* The list of channels creates that of the party and that of the guild.   *)
RequestChannels(p) ==
    LET mine == {c \in ChannelIds : c[1] \in topic \cap GroupKinds
                                        /\ chat.belongs[p][c[1]] = c[2]}
    IN  chat' = [chat EXCEPT !.channels =
                    [c \in ChannelIds |-> IF c \in mine /\ @[c] = NoChannel
                                          THEN New(NoChannel) ELSE @[c]]]

OpenChannel(p, c) ==
    /\ GetChannel(chat, p, c)
    /\ chat' = AddUser(chat, p, c)

CloseChannel(p, c) == chat' = RemoveUserFromChannel(chat, p, c)

CreatePrivateChannel(p) ==
    LET free == {i \in 1..MaxPrivate : ~Exists(chat, <<"private", i>>)} IN
    /\ "private" \in topic
    /\ PrivateChannels(chat, p) = {}
    /\ \E id \in free :
        /\ \A i \in free : id <= i
        /\ chat' = [chat EXCEPT !.channels[<<"private", id>>] = New(p)]

Invite(p, q) ==
    \E c \in PrivateChannels(chat, p) :
        /\ p # q
        /\ chat' = [chat EXCEPT !.channels[c].invites = @ \cup {q}]

Exclude(p, q) ==
    \E c \in PrivateChannels(chat, p) :
        /\ p # q /\ q \in chat.channels[c].invites
        /\ chat' = RemoveUser([chat EXCEPT !.channels[c].invites = @ \ {q}],
                              q, c)

(* The scripts of a channel are loaded again, and asked about its users.   *)
ReloadChannels ==
    \E users \in SUBSET chat.channels[<<"normal", 1>>].users :
        chat' = [chat EXCEPT !.channels[<<"normal", 1>>].users = users]

InGame(p) ==
    \/ Reconnect(p) \/ LogoutChatter(p) \/ QuitParty(p)
    \/ RequestChannels(p) \/ CreatePrivateChannel(p)
    \/ \E id \in GroupIds : "party" \in topic /\ FoundOrJoinParty(p, id)
    \/ \E id \in GroupIds \cup {NoGroup} : "guild" \in topic /\ SetGuild(p, id)
    \/ \E c \in ChannelIds :
        c[1] \in topic /\ (OpenChannel(p, c) \/ CloseChannel(p, c))
    \/ \E q \in chat.online : Invite(p, q) \/ Exclude(p, q)

ChatNext ==
    /\ \/ \E p \in Chatters : LoginChatter(p)
       \/ \E p \in chat.online : InGame(p)
       \/ ReloadChannels
    /\ UNCHANGED topic

ChatSpec == ChatInit /\ [][ChatNext]_ChatVars

-----------------------------------------------------------------------------
OpenOnes == {c \in ChannelIds : Exists(chat, c)}

(* Whoever is told what is said, or is shown as a guest, is in the game:   *)
(* the pointers of a channel never outlive the player's stay.              *)
HearersInGame ==
    \A c \in OpenOnes :
        chat.channels[c].users \cup chat.channels[c].invites
            \subseteq chat.online

(* A private channel is heard by its owner and by those it invited and did *)
(* not exclude, also when its id was another's before; it is closed when   *)
(* its owner is gone, and nobody has two.                                  *)
PrivateByInvitation ==
    \A c \in OpenOnes :
        c[1] = "private" =>
            LET channel == chat.channels[c] IN
            /\ channel.owner \in channel.users
            /\ \A p \in channel.users : IsInvited(channel, p)
            /\ PrivateChannels(chat, channel.owner) = {c}

(* Chat is sound: what is said is heard by players in the game, and in     *)
(* private only by those it is meant for.                                  *)
ChatSound == ChatTypeOK /\ HearersInGame /\ PrivateByInvitation

(* party.cpp:218 tells who joins to "Open the party channel to communicate *)
(* with your companions.": those who hear are companions.                  *)
PartyHearsParty ==
    \A c \in OpenOnes :
        c[1] = "party" =>
            \A p \in chat.channels[c].users : chat.belongs[p]["party"] = c[2]
=============================================================================
