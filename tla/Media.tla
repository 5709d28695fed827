---------------------------------- MODULE Media --------------------------------
(***************************************************************************)
(* Encrypted audio and files on their way to a device (routes/audio.rs,    *)
(* routes/files.rs, hysj-messaging/src/media_store.rs).  For each medium   *)
(* Redis holds two keys, the blob and what was declared of it ("meta"),    *)
(* each with a time to live: long from the upload, short once it was       *)
(* downloaded.  Every Redis command is a step.                             *)
(*                                                                         *)
(* The audio and the file routes make the same calls.  Sizes appear as     *)
(* refused uploads, which change nothing; the limit on the number of       *)
(* uploads is the rate limiter of Login.                                   *)
(***************************************************************************)
EXTENDS Naturals, FiniteSets

CONSTANTS MediaIds,
          MediaTasks,            \* tasks that serve requests, one after another
          MaxVersions,           \* bound on the blobs ever uploaded
          MaxMediaErrors         \* bound on the commands that fail

ASSUME MediaAssumption == MaxVersions \in Nat /\ MaxMediaErrors \in Nat

VARIABLES begun,                 \* media whose upload was initialized
          meta,                  \* media:{id}:meta: absent, or its time to live
          blob,                  \* media:{id}: absent, or a version and its time to live
          serving,               \* the request of each task and how far it is
          versions,              \* how many blobs were uploaded
          seen,                  \* versions some download was answered with
          mediaErrors

mediaVars == <<begun, meta, blob, serving, versions, seen, mediaErrors>>
mediaGhosts == <<seen, mediaErrors>>

Absent == "gone"
Free == [at |-> "free"]
NoBlob == [version |-> 0, ttl |-> Absent]

MediaInit ==
  /\ begun = {}
  /\ meta = [m \in MediaIds |-> Absent]
  /\ blob = [m \in MediaIds |-> NoBlob]
  /\ serving = [t \in MediaTasks |-> Free]
  /\ versions = 0
  /\ seen = {}
  /\ mediaErrors = 0

-----------------------------------------------------------------------------
Serves(t, what) == serving' = [serving EXCEPT ![t] = what]

\* EXPIRE: on a key that is there.
Shortened(ttl) == IF ttl = Absent THEN Absent ELSE "short"

\* upload_init, store_meta: the id is new.
UploadInit(m) ==
  /\ m \notin begun
  /\ begun' = begun \cup {m}
  /\ meta' = [meta EXCEPT ![m] = "long"]
  /\ UNCHANGED <<blob, serving, versions, mediaGhosts>>

\* upload_blob: get_meta, and the size is within what was declared.
UploadCheck(t, m) ==
  /\ serving[t] = Free
  /\ meta[m] # Absent
  /\ versions < MaxVersions
  /\ versions' = versions + 1
  /\ Serves(t, [at |-> "store", medium |-> m, version |-> versions + 1])
  /\ UNCHANGED <<begun, meta, blob, mediaGhosts>>

\* store_blob: replaces a blob that is there, and starts a long time to live.
StoreBlob(t) ==
  /\ serving[t].at = "store"
  /\ blob' = [blob EXCEPT ![serving[t].medium] =
                [version |-> serving[t].version, ttl |-> "long"]]
  /\ Serves(t, Free)
  /\ UNCHANGED <<begun, meta, versions, mediaGhosts>>

\* download_blob, retrieve_and_expire: the GET.  Nothing there: 404.
DownloadGet(t, m) ==
  /\ serving[t] = Free
  /\ blob[m] # NoBlob
  /\ Serves(t, [at |-> "expire", medium |-> m, version |-> blob[m].version])
  /\ UNCHANGED <<begun, meta, blob, versions, mediaGhosts>>

\* Mutant: only the meta key gets the short time to live.
ExpireBlobForgotten(t) ==
  /\ serving[t].at = "expire"
  /\ Serves(t, [serving[t] EXCEPT !.at = "expireMeta"])
  /\ UNCHANGED <<begun, meta, blob, versions, mediaGhosts>>

\* EXPIRE of the blob, whichever is there by now.
ExpireBlob(t) ==
  /\ serving[t].at = "expire"
  /\ blob' = [blob EXCEPT ![serving[t].medium].ttl = Shortened(@)]
  /\ Serves(t, [serving[t] EXCEPT !.at = "expireMeta"])
  /\ UNCHANGED <<begun, meta, versions, mediaGhosts>>

\* EXPIRE of the meta key; the blob that was read is the answer.
ExpireMeta(t) ==
  /\ serving[t].at = "expireMeta"
  /\ meta' = [meta EXCEPT ![serving[t].medium] = Shortened(@)]
  /\ seen' = seen \cup {serving[t].version}
  /\ Serves(t, Free)
  /\ UNCHANGED <<begun, blob, versions, mediaErrors>>

\* delete_blob: one DEL of both keys.
DeleteBlob(m) ==
  /\ meta[m] # Absent \/ blob[m] # NoBlob
  /\ meta' = [meta EXCEPT ![m] = Absent]
  /\ blob' = [blob EXCEPT ![m] = NoBlob]
  /\ UNCHANGED <<begun, serving, versions, seen, mediaErrors>>

\* Redis: a time to live ends, or the memory limit evicts the key.
MetaExpires(m) ==
  /\ meta[m] # Absent
  /\ meta' = [meta EXCEPT ![m] = Absent]
  /\ UNCHANGED <<begun, blob, serving, versions, mediaGhosts>>

BlobExpires(m) ==
  /\ blob[m] # NoBlob
  /\ blob' = [blob EXCEPT ![m] = NoBlob]
  /\ UNCHANGED <<begun, meta, serving, versions, mediaGhosts>>

\* A command fails, or the server stops: the request has no answer.
MediaError(t) ==
  /\ mediaErrors < MaxMediaErrors
  /\ serving[t] # Free
  /\ Serves(t, Free)
  /\ mediaErrors' = mediaErrors + 1
  /\ UNCHANGED <<begun, meta, blob, versions, seen>>

MediaNext ==
  \/ \E m \in MediaIds : \/ UploadInit(m) \/ DeleteBlob(m)
                         \/ MetaExpires(m) \/ BlobExpires(m)
  \/ \E t \in MediaTasks :
       \/ \E m \in MediaIds : UploadCheck(t, m) \/ DownloadGet(t, m)
       \/ StoreBlob(t) \/ ExpireBlob(t) \/ ExpireMeta(t) \/ MediaError(t)

MediaSpec == MediaInit /\ [][MediaNext]_mediaVars

-----------------------------------------------------------------------------
(* Properties *)

MediaTypeOK ==
  /\ begun \subseteq MediaIds
  /\ meta \in [MediaIds -> {Absent, "short", "long"}]
  /\ blob \in [MediaIds -> {NoBlob} \cup [version : 1 .. versions, ttl : {"short", "long"}]]
  /\ serving \in [MediaTasks -> {Free} \cup [at : {"store", "expire", "expireMeta"},
                                             medium : begun, version : 1 .. versions]]
  /\ versions \in 0 .. MaxVersions /\ seen \subseteq 1 .. versions
  /\ mediaErrors \in 0 .. MaxMediaErrors

\* audio.rs: "auto-deletes after 3 minutes".  A blob that a download was answered with
\* has the short time to live, whatever uploads, deletions and other downloads happen
\* between the GET and the EXPIRE.
SeenExpires == \A m \in MediaIds : blob[m].version \in seen => blob[m].ttl = "short"
=============================================================================
