------------------------------ MODULE ReadPath ------------------------------
(***************************************************************************)
(* The read RPCs of grpc/server.rs on one table: GetTable, and             *)
(* ListActiveFiles with the task it spawns, its batches and the bounded    *)
(* channel to the client.  Writers commit at any time; readers take no     *)
(* lock.  The client may stop reading and go away at any time, storage may *)
(* fail at every call, also half way through the listing.                  *)
(*                                                                         *)
(* One client makes one read; what a read meets is the table's history and *)
(* nothing of other reads.                                                 *)
(***************************************************************************)
EXTENDS Naturals, Sequences, FiniteSets, SequencesExt

CONSTANTS
    Files,          \* names of data files
    FILE_BATCH_SIZE,
    STREAM_CHANNEL_CAPACITY,
    MaxVersions     \* bound: commits the writers make

ASSUME BatchAssumption == FILE_BATCH_SIZE \in Nat \ {0}
ASSUME CapacityAssumption == STREAM_CHANNEL_CAPACITY \in Nat \ {0}

VARIABLES
    table,     \* the table's history: table[v + 1] is the active set of version v
    rpc,       \* which RPC the client called: "none", "get" or "list"
    pc,        \* where its handler, or the spawned task, is
    floor,     \* (history) number of versions when the RPC began
    snapshot,  \* number of versions in the snapshot the handler loaded
    unread,    \* files the snapshot's stream has still to yield
    batch,     \* stream_active_files_inner's batch
    status,    \* the Err(Status) stream_active_files is about to send
    chan,      \* the mpsc channel, oldest item first
    rx,        \* the client's end: "open", "dropped", or "ended" once it saw
               \* the end of the stream or of the RPC
    got        \* the items the client has received

vars == <<table, rpc, pc, floor, snapshot, unread, batch, status, chan, rx, got>>
tableVars == <<table, floor>>

Header(n)    == [kind |-> "header", versions |-> n, files |-> <<>>, code |-> "OK"]
Batch(s)     == [kind |-> "batch", versions |-> 0, files |-> s, code |-> "OK"]
Failure(c)   == [kind |-> "err", versions |-> 0, files |-> <<>>, code |-> c]

Codes == {"OK", "NOT_FOUND", "FAILED_PRECONDITION", "INTERNAL", "INVALID_ARGUMENT",
          "PERMISSION_DENIED"}
Items ==
    [kind : {"header", "batch", "err"}, versions : Nat, files : Seq(Files), code : Codes]

(* One type invariant: every variable keeps its shape.                     *)
TypeOK ==
    /\ table \in Seq(SUBSET Files)
    /\ rpc \in {"none", "get", "list"}
    /\ pc \in {"idle", "exists", "open", "header", "next", "flush", "tail", "fail", "done"}
    /\ floor \in 0 .. Len(table)
    /\ snapshot \in 0 .. Len(table)
    /\ unread \subseteq Files
    /\ batch \in Seq(Files) /\ Len(batch) <= FILE_BATCH_SIZE
    /\ status \in Codes
    /\ chan \in Seq(Items) /\ Len(chan) <= STREAM_CHANNEL_CAPACITY
    /\ rx \in {"open", "dropped", "ended"}
    /\ got \in Seq(Items)

Init ==
    /\ table = <<>>
    /\ rpc = "none"
    /\ pc = "idle"
    /\ floor = 0
    /\ snapshot = 0
    /\ unread = {}
    /\ batch = <<>>
    /\ status = "OK"
    /\ chan = <<>>
    /\ rx = "open"
    /\ got = <<>>

----------------------------------------------------------------------------
(* A writer commits: some files leave the table, some enter it.            *)
Commit ==
    /\ Len(table) < MaxVersions
    /\ \E A \in SUBSET Files : table' = Append(table, A)
    /\ UNCHANGED <<rpc, pc, floor, snapshot, unread, batch, status, chan, rx, got>>

(* normalize_and_check_table_uri fails: the RPC itself is answered and no  *)
(* task is spawned.                                                        *)
RejectUri ==
    /\ rpc = "none"
    /\ rpc' \in {"get", "list"}
    /\ pc' = "done"
    /\ \E c \in {"INVALID_ARGUMENT", "PERMISSION_DENIED"} : got' = <<Failure(c)>>
    /\ rx' = "ended"
    /\ floor' = Len(table)
    /\ UNCHANGED <<table, snapshot, unread, batch, status, chan>>

(* get_table starts its checks; list_active_files spawns its task and      *)
(* returns the receiving end of the channel.                               *)
Begin ==
    /\ rpc = "none"
    /\ rpc' \in {"get", "list"}
    /\ pc' = "exists"
    /\ floor' = Len(table)
    /\ UNCHANGED <<table, snapshot, unread, batch, status, chan, rx, got>>

(* The handler gives up: get_table answers, the task sends the error item. *)
Fails(code) ==
    \/ /\ rpc = "get"
       /\ pc' = "done"
       /\ got' = Append(got, Failure(code))
       /\ rx' = "ended"
       /\ UNCHANGED status
    \/ /\ rpc = "list"
       /\ pc' = "fail"
       /\ status' = code
       /\ UNCHANGED <<got, rx>>

table_exists ==
    /\ pc = "exists"
    /\ \/ table # <<>> /\ pc' = "open" /\ UNCHANGED <<status, got, rx>>
       \/ table = <<>> /\ Fails("NOT_FOUND")
       \/ Fails("INTERNAL")
    /\ UNCHANGED <<table, rpc, floor, snapshot, unread, batch, chan>>

(* open_table loads the latest snapshot and build_metadata_and_protocol    *)
(* reads its metadata; get_table answers with the version.  A table that   *)
(* does not load or is not initialized fails.                              *)
Loaded_Previous == IF Len(table) > 1 THEN Len(table) - 1 ELSE Len(table)
Loaded == Len(table)

open_table ==
    /\ pc = "open"
    /\ \/ /\ snapshot' = Loaded
          /\ \/ /\ rpc = "list"
                /\ pc' = "header"
                /\ unread' = table[snapshot']
                /\ UNCHANGED <<status, got, rx>>
             \/ /\ rpc = "get"
                /\ pc' = "done"
                /\ got' = Append(got, Header(snapshot'))
                /\ rx' = "ended"
                /\ UNCHANGED <<status, unread>>
       \/ /\ \E c \in {"INTERNAL", "FAILED_PRECONDITION"} : Fails(c)
          /\ UNCHANGED <<snapshot, unread>>
    /\ UNCHANGED <<table, rpc, floor, batch, chan>>

----------------------------------------------------------------------------
(* tx.send(item).await: waits for room, and fails once the client is gone. *)
Sent(item) == rx = "open" /\ Len(chan) < STREAM_CHANNEL_CAPACITY /\ chan' = Append(chan, item)
SendFails_Never == FALSE
SendFails == rx = "dropped" /\ UNCHANGED chan

SendHeader ==
    /\ pc = "header"
    /\ \/ Sent(Header(snapshot)) /\ pc' = "next"
       \/ SendFails /\ pc' = "done"
    /\ UNCHANGED <<tableVars, rpc, snapshot, unread, batch, status, rx, got>>

BatchFull_OneMore(b) == Len(b) > FILE_BATCH_SIZE
BatchFull(b) == Len(b) >= FILE_BATCH_SIZE

(* The stream yields the next file, in whatever order it has.              *)
NextFile ==
    /\ pc = "next"
    /\ \E f \in unread :
          /\ unread' = unread \ {f}
          /\ batch' = Append(batch, f)
    /\ pc' = IF BatchFull(batch') THEN "flush" ELSE "next"
    /\ UNCHANGED <<tableVars, rpc, snapshot, status, chan, rx, got>>

(* The stream yields an error: what is in the batch is not sent.           *)
StreamFails ==
    /\ pc = "next"
    /\ pc' = "fail"
    /\ status' = "INTERNAL"
    /\ UNCHANGED <<tableVars, rpc, snapshot, unread, batch, chan, rx, got>>

Flush_NotTaken ==
    /\ pc = "flush"
    /\ \/ Sent(Batch(batch)) /\ pc' = "next"
       \/ SendFails /\ pc' = "done"
    /\ UNCHANGED <<tableVars, rpc, snapshot, unread, batch, status, rx, got>>

(* A full batch is sent and taken out of `batch`.                          *)
Flush ==
    /\ pc = "flush"
    /\ \/ Sent(Batch(batch)) /\ pc' = "next"
       \/ SendFails /\ pc' = "done"
    /\ batch' = <<>>
    /\ UNCHANGED <<tableVars, rpc, snapshot, unread, status, rx, got>>

(* The stream is at its end: what is left in the batch is sent, if any.    *)
EndOfFiles ==
    /\ pc = "next" /\ unread = {}
    /\ pc' = IF batch = <<>> THEN "done" ELSE "tail"
    /\ UNCHANGED <<tableVars, rpc, snapshot, unread, batch, status, chan, rx, got>>

SendTail ==
    /\ pc = "tail"
    /\ Sent(Batch(batch)) \/ SendFails
    /\ pc' = "done"
    /\ UNCHANGED <<tableVars, rpc, snapshot, unread, batch, status, rx, got>>

(* stream_active_files: the error becomes the stream's last item.          *)
SendError_Continues ==
    /\ pc = "fail"
    /\ Sent(Failure(status)) \/ SendFails
    /\ pc' = IF snapshot = 0 THEN "done" ELSE "next"
    /\ UNCHANGED <<tableVars, rpc, snapshot, unread, batch, status, rx, got>>

SendError_Dropped ==
    /\ pc = "fail"
    /\ pc' = "done"
    /\ UNCHANGED <<tableVars, rpc, snapshot, unread, batch, status, chan, rx, got>>

SendError ==
    /\ pc = "fail"
    /\ Sent(Failure(status)) \/ SendFails
    /\ pc' = "done"
    /\ UNCHANGED <<tableVars, rpc, snapshot, unread, batch, status, rx, got>>

----------------------------------------------------------------------------
(* The sending half of the channel is dropped when the task returns.       *)
SenderGone_Kept == FALSE
SenderGone == pc = "done"

(* The client reads the next item, or the end once the sender is gone.     *)
Receive ==
    /\ rpc = "list" /\ rx = "open"
    /\ \/ /\ chan # <<>>
          /\ got' = Append(got, Head(chan))
          /\ chan' = Tail(chan)
          /\ UNCHANGED rx
       \/ /\ chan = <<>> /\ SenderGone
          /\ rx' = "ended"
          /\ UNCHANGED <<chan, got>>
    /\ UNCHANGED <<tableVars, rpc, pc, snapshot, unread, batch, status>>

(* The client goes away.  A get_table future is dropped with it; the       *)
(* spawned task only notices at its next send.                             *)
Disconnect ==
    /\ rpc # "none" /\ rx = "open"
    /\ rx' = "dropped"
    /\ chan' = <<>>
    /\ pc' = IF rpc = "get" THEN "done" ELSE pc
    /\ UNCHANGED <<tableVars, rpc, snapshot, unread, batch, status, got>>

Task ==
    \/ table_exists \/ open_table \/ SendHeader \/ NextFile \/ StreamFails \/ Flush
    \/ EndOfFiles \/ SendTail \/ SendError

Finished == rpc # "none" /\ pc = "done" /\ rx # "open" /\ Len(table) = MaxVersions

Next ==
    \/ Commit \/ RejectUri \/ Begin \/ Task \/ Receive \/ Disconnect
    \/ Finished /\ UNCHANGED vars

Spec == Init /\ [][Next]_vars

(* Storage answers and the runtime polls the task; nothing is assumed of   *)
(* the client.                                                             *)
TaskFairSpec == Spec /\ WF_vars(Task)

(* The client keeps reading as long as it is there.                        *)
ReaderFairSpec == TaskFairSpec /\ WF_vars(Receive)

----------------------------------------------------------------------------
(* The files that the items of a stream carry, and that none comes twice.  *)
FilesOf(s) == UNION {ToSet(s[i].files) : i \in 1 .. Len(s)}
NothingTwice(s) ==
    /\ \A i \in 1 .. Len(s) : IsInjective(s[i].files)
    /\ \A i, j \in 1 .. Len(s) : i # j => ToSet(s[i].files) \cap ToSet(s[j].files) = {}
Failed == got # <<>> /\ Last(got).kind = "err"

(* The files a client has been sent so far are files of the version its    *)
(* header names, each once, whatever was committed since (server.rs:274).  *)
SnapshotOnly ==
    /\ FilesOf(got) # {} => got[1].kind = "header" /\ FilesOf(got) \subseteq table[got[1].versions]
    /\ NothingTwice(got)

(* A listing that ends without an error item is complete: no tail batch is *)
(* lost, and a failure half way never looks like a short table.            *)
CleanEndIsComplete ==
    rpc = "list" /\ rx = "ended" /\ ~Failed =>
        got # <<>> /\ got[1].kind = "header" /\ FilesOf(got) = table[got[1].versions]

(* The stream's grammar: one header, then batches, and an error only as    *)
(* the last item (server.rs:229-232, 256-270).  No batch is empty or above *)
(* FILE_BATCH_SIZE, and only the last may be below it (server.rs:318, 331).*)
Shape(s) ==
    \A i \in 1 .. Len(s) :
        /\ s[i].kind = "header" <=> i = 1 /\ s[1].kind # "err"
        /\ s[i].kind = "err" => i = Len(s)
        /\ s[i].kind = "batch" =>
              /\ Len(s[i].files) \in 1 .. FILE_BATCH_SIZE
              /\ i + 1 <= Len(s) /\ s[i + 1].kind = "batch" => Len(s[i].files) = FILE_BATCH_SIZE

(* What the client has received has that shape.                            *)
StreamShape == Shape(got)

(* A read sees every commit that had landed when it was called: GetTable's *)
(* version and the listing's header are never older, and a table that      *)
(* existed is never NOT_FOUND.                                             *)
ReadsAreFresh ==
    got # <<>> =>
        /\ got[1].kind = "header" => got[1].versions >= floor
        /\ got[1].code = "NOT_FOUND" => floor = 0

(* A client that leaves frees the spawned task, wherever it was, without   *)
(* anybody reading the channel any more.                                   *)
TaskEndsWithoutClient == rx = "dropped" ~> pc = "done"

(* A client that keeps reading comes to the end of its read, and a task    *)
(* that waits for room in the channel gets on, unless the client leaves.   *)
ReadEnds == rpc # "none" ~> rx # "open" /\ pc = "done"

----------------------------------------------------------------------------
(* What makes the safety properties inductive is said of the whole stream, *)
(* the items on their way included.                                        *)
Stream == got \o chan
Listing == pc \in {"next", "flush", "tail"}

(* What the handler and the client's end have to do with each other.       *)
StageSound ==
    /\ rpc = "none" <=> pc = "idle"
    /\ rpc = "get" => pc \in {"exists", "open", "done"} /\ chan = <<>>
    /\ pc \in {"idle", "exists", "open", "header"} => Stream = <<>> /\ batch = <<>>
    /\ pc = "open" => table # <<>>
    /\ pc = "header" \/ Listing => snapshot \in 1 .. Len(table) /\ floor <= snapshot
    /\ pc = "fail" /\ status = "NOT_FOUND" => floor = 0
    /\ rx = "dropped" => chan = <<>>
    /\ rx = "ended" => pc = "done" /\ chan = <<>>

(* Only the end of the stream may be an error or a batch that is not full, *)
(* and the end is what the handler sends last.                             *)
StreamSound ==
    /\ Shape(Stream)
    /\ Listing \/ pc = "fail" => \A i \in 1 .. Len(Stream) :
          Stream[i].kind # "err" /\ (Stream[i].kind = "batch" => Len(Stream[i].files) = FILE_BATCH_SIZE)
    /\ Listing /\ rx # "dropped" => Stream # <<>>
    /\ pc = "next" => Len(batch) < FILE_BATCH_SIZE
    /\ pc = "flush" => Len(batch) = FILE_BATCH_SIZE
    /\ pc = "tail" => batch # <<>> /\ unread = {}
    /\ \A i \in 1 .. Len(Stream) :
          /\ Stream[i].kind # "batch" => Stream[i].files = <<>>
          /\ Stream[i].code = "NOT_FOUND" => floor = 0

(* The stream, the batch and the snapshot's stream share out the files of  *)
(* the version that the header names.                                      *)
FilesSound ==
    /\ NothingTwice(Stream)
    /\ Stream # <<>> /\ Stream[1].kind = "header" =>
          /\ Stream[1].versions \in floor .. Len(table)
          /\ Stream[1].versions # 0
          /\ Listing \/ pc = "fail" => Stream[1].versions = snapshot
          /\ FilesOf(Stream) \subseteq table[Stream[1].versions]
    /\ pc = "header" \/ Listing =>
          /\ unread \cup ToSet(batch) \subseteq table[snapshot]
          /\ unread \cap ToSet(batch) = {}
          /\ IsInjective(batch)
          /\ FilesOf(Stream) \cap (unread \cup ToSet(batch)) = {}

(* Nothing is left out while the client is there.                          *)
NothingLost ==
    rx # "dropped" =>
        /\ pc = "header" \/ Listing => table[snapshot] \subseteq FilesOf(Stream) \cup unread \cup ToSet(batch)
        /\ pc = "done" /\ rpc = "list" =>
              /\ Stream # <<>>
              /\ \/ Last(Stream).kind = "err"
                 \/ Stream[1].kind = "header" /\ FilesOf(Stream) = table[Stream[1].versions]

(* The inductive invariant of a read.                                      *)
IInv ==
    /\ TypeOK
    /\ StageSound
    /\ StreamSound
    /\ FilesSound
    /\ NothingLost
=============================================================================
