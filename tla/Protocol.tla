------------------------------ MODULE Protocol ------------------------------
(***************************************************************************)
(* What the two ends of a connection have in common (src/common/           *)
(* networkprotocol.cpp): the topics that a client is informed about and    *)
(* the messages of the newest version of the protocol.  Both ends are of   *)
(* that version; the branches for older ones are left out.                 *)
(*                                                                         *)
(* The value of a topic is the number of times that it has changed.  The   *)
(* delayed start, a full indexation, a quick scan and a health problem are *)
(* switches: they are on when that number is odd.                          *)
(***************************************************************************)
EXTENDS Integers, Sequences, FiniteSets

CONSTANT Users      \* names of user accounts

Topics == {"player", "length", "volume", "delayed", "user", "dynamic", "wave",
           "indexing", "scanning", "health", "scrobbling"}

Nobody == "nobody"

ASSUME NobodyIsNoUser == Nobody \notin Users

NoSalt == 0
NoRef == 0

On(version) == version % 2 = 1

(* Messages from the client.  A password is sent hashed with the salt of   *)
(* the account and one of the session; what counts is whether it is right  *)
(* and for which salt.                                                     *)
Action(action) == [type |-> "Action", action |-> action]

Ask(kind) == [type |-> "Ask", kind |-> kind]

CommandFor(topic) == [type |-> "Command", topic |-> topic]

Request(kind, ref, possible) ==
    [type |-> "Request", kind |-> kind, ref |-> ref, possible |-> possible]

Initiate(type, login, ref) == [type |-> type, login |-> login, ref |-> ref]

Finish(type, login, ref, salt, right) ==
    [type |-> type, login |-> login, ref |-> ref, salt |-> salt, right |-> right]
=============================================================================
