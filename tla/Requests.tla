------------------------------ MODULE Requests ------------------------------
(***************************************************************************)
(* What a client can ask of the server: one operator for each function of  *)
(* ServerConnection (src/client/serverconnection.cpp) that sends a request *)
(* about the player, the queue, its entries and the modes.  The references *)
(* of requests whose result is a future are left out; each program has one *)
(* of them at most.                                                        *)
(***************************************************************************)
EXTENDS Integers

(* sendSingleByteAction: a question or a command that is one byte.         *)
SingleByte(action) == [type |-> action]

RequestPlayerState == SingleByte("playerState")
RequestUserPlayingForMode == SingleByte("userPlayingFor")
RequestDynamicModeStatus == SingleByte("dynamicStatus")
DelayedStartInfoRequest == SingleByte("delayedStartInfo")
InsertBreakAtFront == SingleByte("insertBreak")
SkipToNext == SingleByte("skip")

(* play, pause                                                             *)
PlayOrPause(which) == SingleByte(which)

(* The mode is that of the public, user 0, or of the user who is logged in *)
SwitchToMode(user) == [type |-> "setMode", user |-> user]

SwitchDynamicMode(enabled) == [type |-> "setDynamic", enabled |-> enabled]

ChangeVolume(percentage) == [type |-> "setVolume", volume |-> percentage]

-----------------------------------------------------------------------------
DeleteQueueEntry(id) == [type |-> "remove", id |-> id]

MoveQueueEntry(id, offsetDiff) == [type |-> "move", id |-> id, diff |-> offsetDiff]

InsertQueueEntryAtIndex(ref, hash, index) ==
    [type |-> "insert", ref |-> ref, entry |-> hash, index |-> index, kind |-> ""]

(* At the front or at the end of the queue.                                *)
InsertQueueEntryAt(where, hash) == [type |-> "enqueue", where |-> where, entry |-> hash]

(* A break or a barrier; the index may be counted from the end.            *)
InsertSpecialQueueItemAtIndex(ref, item, index, kind) ==
    [type |-> "insert", ref |-> ref, entry |-> item, index |-> index, kind |-> kind]

-----------------------------------------------------------------------------
(* About entries: one ID, or several in one message.                       *)
QueueEntryInfoRequest(id) == [type |-> "info", id |-> id]

BulkQueueEntryInfoRequest(ids) == [type |-> "bulkInfo", ids |-> ids]

QueueEntryHashRequest(ids) == [type |-> "hashes", ids |-> ids]

PossibleFilenamesRequest(id) == [type |-> "names", id |-> id]

HashUserDataRequest(hashes) == [type |-> "hashUserData", hashes |-> hashes]

(* The number of entries travels in one byte.                              *)
PlayerHistoryRequest(limit) ==
    [type |-> "history", limit |-> IF limit < 0 THEN 0 ELSE IF limit > 255 THEN 255 ELSE limit]

-----------------------------------------------------------------------------
(* About the scrobbling of the user who is logged in.                      *)
ScrobblingProviderInfoRequest == [type |-> "providerInfo"]

UserScrobblingEnableDisableRequest(enable) == [type |-> "setScrobbling", enabled |-> enable]

-----------------------------------------------------------------------------
(* The requests that have a future: an indexation, a delayed start, the    *)
(* settings of the server, the version, and what is known of a hash.       *)
FutureRequest(kind, hash) == [type |-> "action", kind |-> kind, hash |-> hash]

ShutdownServer == SingleByte("shutdown")

(* The login; only whether the credentials are right matters.              *)
LoginRequest(right) == [type |-> "login", right |-> right]
=============================================================================
