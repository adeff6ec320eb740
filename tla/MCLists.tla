------------------------------ MODULE MCLists -------------------------------
(***************************************************************************)
(* What the tabs of users list, side by side in two models that share no   *)
(* state: servers (ServerList) and the channels of a server (ChannelList). *)
(* One moves while the other rests at its start, which reaches every state *)
(* that each of them can be in.                                            *)
(***************************************************************************)
EXTENDS ServerList, TLC

CONSTANTS Home, Channel, Tab, NoChannel, NoTab, MaxChannelChanges

(* What stands for no channel, no tab and no server is none.               *)
ASSUME ZeroAssumption ==
  NoChannel \notin Channel /\ NoTab \notin Tab /\ NoServer \notin Home
ASSUME ChannelBoundAssumption == MaxChannelChanges \in Nat

VARIABLES   \* of ChannelList
  channelRows, servers, channelHistory, channelReq, room, opened, channelTold,
  channelLost, channelSilent, channelCrossed

Channels ==
  INSTANCE ChannelList WITH
    Server <- Home, Session <- Tab, NoSession <- NoTab, MaxChanges <- MaxChannelChanges,
    rows <- channelRows, history <- channelHistory, req <- channelReq, told <- channelTold,
    lost <- channelLost, silent <- channelSilent, crossed <- channelCrossed

channelVars ==
  <<channelRows, servers, channelHistory, channelReq, room, opened, channelTold,
    channelLost, channelSilent, channelCrossed>>

ServersRest == Init /\ UNCHANGED vars
ChannelsRest == Channels!Init /\ UNCHANGED channelVars

Start == Init /\ Channels!Init

SideBySide ==
  /\ Start
  /\ [][\/ ChannelsRest /\ Next
        \/ ServersRest /\ Channels!Next]_<<vars, channelVars>>

(* A tab with a list of servers misses no update but where its bus was     *)
(* full, is told of deletions that happen, and goes on showing a deleted   *)
(* server only for reasons named.                                          *)
ServersFollowed ==
  TypeOK /\ NoUpdateMissed /\ AnnouncedDeletionHappens /\ NoGhostServer

(* A tab is in the room of the server whose channels it was answered, and  *)
(* hears of each change to them but for the gap before its subscription    *)
(* and full buses, as long as the server is there.                         *)
ChannelsFollowed ==
  Channels!TypeOK /\ Channels!RoomMatchesList /\ Channels!OnlyTheGapIsMissed

(* List and events add up to the table, for servers and for channels.      *)
ListsConverge == ListConverges /\ Channels!ListConverges

(* Bound: a full bus and a silent deletion do not come together, and with  *)
(* either of them at most one tab follows the list of servers.             *)
OneTroubleBound ==
  LET full        == \E s \in Session : lost[s] # {}
      channelFull == \E s \in Tab : channelLost[s] # {}
  IN  /\ full \/ ~account => Cardinality(connected) <= 1
      /\ ~(full /\ ~account)
      /\ ~(channelFull /\ servers # Home)

Symmetry == Permutations(Session) \cup Permutations(Request) \cup Permutations(Channel)
=============================================================================
