------------------------------- MODULE Registry -------------------------------
(***************************************************************************)
(* The registry client (pm/registry.rs): package metadata fetched with     *)
(* ETags through two files on disk, one for the body and one for its etag, *)
(* while other fetches, of the same process or of another one, use the     *)
(* same files, the cache is cleaned (pm/cache.rs) and packages are         *)
(* published.  The three fetch functions differ in the Accept header and   *)
(* in the suffix of the file names; a document is a package in a format.   *)
(*                                                                         *)
(* A package name is the sequence of its dot-separated parts: that is all  *)
(* Path::with_extension looks at.  The text of a document is which version *)
(* of the package was the last one when it was served, and its etag stands *)
(* for that text: registries hash the body they send.                      *)
(***************************************************************************)
EXTENDS Naturals, Sequences, FiniteSets

CONSTANTS
    Fetch,          \* the calls of fetch_metadata and its two siblings
    Document,       \* [name, format] records, see Format
    MaxConcurrent,  \* MAX_CONCURRENT_REQUESTS
    MaxRetries,     \* MAX_RETRIES
    Malformed,      \* the texts serde_json cannot read into the metadata type
    Updated,        \* bound: the packages of which new versions appear
    MaxVersion,     \* bound: and how many
    MaxFetches,     \* bound: how many fetches there are in all
    MaxUpsets,      \* bound: how many fetches die and caches are cleaned
    None,           \* no file, no header, no fetch
    Empty, Garbage  \* a file that was truncated, and one two fetches wrote

ASSUME BoundsAssumption ==
    /\ MaxConcurrent \in Nat \ {0} /\ MaxRetries \in Nat \ {0}
    /\ Updated \subseteq {d.name : d \in Document} /\ MaxVersion \in Nat \ {0}
    /\ MaxFetches \in Nat /\ MaxUpsets \in Nat

Format == {"full", "install", "abbreviated"}

ASSUME DocumentAssumption ==
    \A d \in Document : d.format \in Format /\ d.name \in Seq(STRING) /\ d.name # <<>>

-----------------------------------------------------------------------------
(* File names. *)

(* Path::with_extension replaces what follows the last dot of the name;    *)
(* the extensions .json and .etag themselves are told apart by the         *)
(* variables that hold the files.                                          *)
WithoutExtension(name) == IF Len(name) = 1 THEN name ELSE SubSeq(name, 1, Len(name) - 1)

CacheKey(d) ==
    CASE d.format = "full"        -> d.name
      [] d.format = "install"     -> [d.name EXCEPT ![Len(d.name)] = @ \o "__install"]
      [] d.format = "abbreviated" -> Append(d.name, "abbreviated")

CachePath(d) == WithoutExtension(CacheKey(d))
EtagPath(d)  == WithoutExtension(CacheKey(d))

File == {CachePath(d) : d \in Document} \cup {EtagPath(d) : d \in Document}

-----------------------------------------------------------------------------
VARIABLES
    published,   \* published[n]: the last version of n in the registry
    etag,        \* etag[file]: the etag on disk
    body,        \* body[file]: the document on disk
    stage,       \* what a fetch does next
    wanted,      \* the document a fetch asks for
    ifNoneMatch, \* the If-None-Match header of its request
    reply,       \* the document of a 200 response, None for a 304
    returned,    \* what the fetch returned
    attempt,     \* the failed attempts of this fetch
    fetches,     \* how many fetches were started
    upsets,      \* how many fetches died and how often the cache was cleaned
    cleaning,    \* the files the running clean has not removed yet
    \* History, which no guard of a fetch reads:
    floor,       \* the version published when the request was sent
    lost,        \* how many attempts the network failed, or the registry with
                 \* a text that the client cannot read
    writer,      \* whose body belongs to the etag on disk: a fetch that is
                 \* still to write it, "several", or None when they agree
    trusted      \* nobody else wrote the files during this fetch and they
                 \* agreed when its requests were sent

files   == <<etag, body>>
history == <<floor, lost, writer, trusted>>
registryVars == <<published, etag, body, stage, wanted, ifNoneMatch, reply, returned,
          attempt, fetches, upsets, cleaning, history>>

Name    == {d.name : d \in Document}
Version    == 1 .. MaxVersion
Text       == [doc : Document, version : Version]
Unreadable == {Empty, Garbage}

Waiting == {"ready", "sent", "body"}  \* the fetch is at an await
Running == {"notModified", "ok", "write"}
Active  == Waiting \cup Running

ASSUME DistinctAssumption ==
    /\ None \notin Text \cup Unreadable \cup Fetch \cup Document
    /\ Unreadable \cap Text = {} /\ Empty # Garbage
    /\ Malformed \subseteq Text
    /\ "several" \notin Fetch \cup {None}

RegistryTypeOK ==
    /\ published \in [Name -> Version]
    /\ etag \in [File -> Text \cup {None}]
    /\ body \in [File -> Text \cup Unreadable \cup {None}]
    /\ stage \in [Fetch -> {"idle", "done", "failed"} \cup Active]
    /\ wanted \in [Fetch -> Document \cup {None}]
    /\ ifNoneMatch \in [Fetch -> Text \cup {None}]
    /\ reply \in [Fetch -> Text \cup {None}]
    /\ returned \in [Fetch -> Text \cup {None}]
    /\ attempt \in [Fetch -> 0 .. MaxRetries]
    /\ fetches \in 0 .. MaxFetches /\ upsets \in 0 .. MaxUpsets
    /\ cleaning \subseteq {"json", "etag"} \X File
    /\ floor \in [Fetch -> Version]
    /\ lost \in [Fetch -> 0 .. MaxRetries]
    /\ writer \in [File -> Fetch \cup {"several", None}]
    /\ trusted \in [Fetch -> BOOLEAN]

RegistryInit ==
    /\ published = [n \in Name |-> 1]
    /\ etag = [file \in File |-> None] /\ body = [file \in File |-> None]
    /\ stage = [f \in Fetch |-> "idle"]
    /\ wanted = [f \in Fetch |-> None]
    /\ ifNoneMatch = [f \in Fetch |-> None]
    /\ reply = [f \in Fetch |-> None] /\ returned = [f \in Fetch |-> None]
    /\ attempt = [f \in Fetch |-> 0]
    /\ fetches = 0 /\ upsets = 0 /\ cleaning = {}
    /\ floor = [f \in Fetch |-> 1] /\ lost = [f \in Fetch |-> 0]
    /\ writer = [file \in File |-> None]
    /\ trusted = [f \in Fetch |-> FALSE]

-----------------------------------------------------------------------------
(* History. *)

(* Somebody (who: a fetch, or None for a clean) writes a file: the other   *)
(* fetches that use it can no longer trust what they read.                 *)
Disturb(file, who) ==
    trusted' = [f \in Fetch |->
                   trusted[f] /\ ~(f # who /\ stage[f] \in Active /\ CachePath(wanted[f]) = file)]

-----------------------------------------------------------------------------
(* A fetch. *)

Leave(f, next) == stage' = [stage EXCEPT ![f] = next]

(* The call returns: its request and its count of attempts are gone. *)
Return(f, outcome) ==
    /\ Leave(f, outcome)
    /\ ifNoneMatch' = [ifNoneMatch EXCEPT ![f] = None]
    /\ attempt' = [attempt EXCEPT ![f] = 0]

Start(f, d) ==
    /\ stage[f] \in {"idle", "done", "failed"}
    /\ fetches < MaxFetches
    /\ Cardinality({g \in Fetch : stage[g] \in Active}) < MaxConcurrent
    /\ Leave(f, "ready")
    /\ fetches' = fetches + 1
    /\ wanted' = [wanted EXCEPT ![f] = d]
    /\ attempt' = [attempt EXCEPT ![f] = 0]
    /\ returned' = [returned EXCEPT ![f] = None]
    /\ reply' = [reply EXCEPT ![f] = None]
    /\ ifNoneMatch' = [ifNoneMatch EXCEPT ![f] = None]
    /\ lost' = [lost EXCEPT ![f] = 0]
    /\ trusted' = [trusted EXCEPT ![f] = TRUE]
    /\ UNCHANGED <<published, files, upsets, cleaning, floor, writer>>

(* The request goes out with the etag that is on disk at this moment. *)
Send(f) ==
    /\ stage[f] = "ready"
    /\ Leave(f, "sent")
    /\ ifNoneMatch' = [ifNoneMatch EXCEPT ![f] = etag[EtagPath(wanted[f])]]
    /\ floor' = [floor EXCEPT ![f] = published[wanted[f].name]]
    /\ trusted' = [trusted EXCEPT ![f] = @ /\ writer[CachePath(wanted[f])] = None]
    /\ UNCHANGED <<published, files, wanted, reply, returned, attempt, fetches,
                   upsets, cleaning, lost, writer>>

(* The registry's answer: 304 when the header matches what it would send.  *)
Current(d) == [doc |-> d, version |-> published[d.name]]

Respond(f) ==
    /\ stage[f] = "sent"
    /\ IF ifNoneMatch[f] = Current(wanted[f])
       THEN Leave(f, "notModified") /\ reply' = [reply EXCEPT ![f] = None]
       ELSE Leave(f, "ok") /\ reply' = [reply EXCEPT ![f] = Current(wanted[f])]
    /\ UNCHANGED <<published, files, wanted, ifNoneMatch, returned, attempt,
                   fetches, upsets, cleaning, history>>

(* Mutant: the attempts are numbered from one and the bound is exclusive. *)
MutRetryOnce(f) ==
    /\ IF attempt[f] + 2 < MaxRetries
       THEN /\ attempt' = [attempt EXCEPT ![f] = @ + 1]
            /\ Leave(f, "ready")
            /\ UNCHANGED ifNoneMatch
       ELSE Return(f, "failed")
    /\ UNCHANGED returned

(* An attempt that failed is tried again, MaxRetries times in all. *)
Retry(f) ==
    /\ IF attempt[f] + 1 < MaxRetries
       THEN /\ attempt' = [attempt EXCEPT ![f] = @ + 1]
            /\ Leave(f, "ready")
            /\ UNCHANGED ifNoneMatch
       ELSE Return(f, "failed")
    /\ UNCHANGED returned

Lose(f) == lost' = [lost EXCEPT ![f] = @ + 1]

(* No response, an error status, or a body that breaks off. *)
NetworkFails(f) ==
    /\ stage[f] \in {"sent", "body"}
    /\ Lose(f)
    /\ Retry(f)
    /\ UNCHANGED <<published, files, wanted, reply, fetches, upsets, cleaning,
                   floor, writer, trusted>>

Readable == Text \ Malformed

ReadCached(f) ==
    /\ stage[f] = "notModified"
    /\ body[CachePath(wanted[f])] \in Readable
    /\ returned' = [returned EXCEPT ![f] = body[CachePath(wanted[f])]]
    /\ Return(f, "done")
    /\ UNCHANGED <<published, files, wanted, reply, fetches,
                   upsets, cleaning, history>>

(* The cached body is missing or cannot be read.  The registry is to blame *)
(* when the text it just confirmed is one the client cannot read.          *)
CannotReadCached(f) ==
    /\ stage[f] = "notModified"
    /\ body[CachePath(wanted[f])] \notin Readable
    /\ IF ifNoneMatch[f] \in Malformed THEN Lose(f) ELSE lost' = lost
    /\ Retry(f)
    /\ UNCHANGED <<published, files, wanted, reply, fetches, upsets, cleaning,
                   floor, writer, trusted>>

(* The etag is written before the body has arrived.  Both writes ignore    *)
(* errors (.ok()).                                                         *)
SaveEtag(f) ==
    /\ stage[f] = "ok"
    /\ Leave(f, "body")
    /\ LET file == EtagPath(wanted[f]) IN
       /\ \/ /\ etag' = [etag EXCEPT ![file] = reply[f]]
             /\ writer' = [writer EXCEPT ![file] = f]
          \/ /\ etag' = etag
             /\ writer' = [writer EXCEPT ![file] = "several"]
       /\ Disturb(file, f)
    /\ UNCHANGED <<published, body, wanted, ifNoneMatch, reply, returned, attempt,
                   fetches, upsets, cleaning, floor, lost>>

(* The body arrives.  std::fs::write opens the file, which truncates it,   *)
(* and then writes.                                                        *)
Truncate(f) ==
    /\ stage[f] = "body"
    /\ Leave(f, "write")
    /\ LET file == CachePath(wanted[f]) IN
       /\ body' = [body EXCEPT ![file] = Empty]
       /\ writer' = [writer EXCEPT ![file] = IF @ = f THEN f ELSE "several"]
       /\ Disturb(file, f)
    /\ UNCHANGED <<published, etag, wanted, ifNoneMatch, reply, returned, attempt,
                   fetches, upsets, cleaning, floor, lost>>

(* What another fetch wrote since the truncation is written over, and its  *)
(* end remains if it was longer; a file that was removed since stays so.   *)
Overwritten(old, text) ==
    CASE old = Empty -> {text}
      [] old = None    -> {None}
      [] OTHER         -> {text, Garbage}

(* Mutant: the answer is read back from the cache when it can be. *)
MutAnswer(f) ==
    LET cached == body[CachePath(wanted[f])]
    IN  IF reply[f] \in Malformed
        THEN Lose(f) /\ Retry(f)
        ELSE /\ Return(f, "done")
             /\ returned' = [returned EXCEPT ![f] = IF cached \in Readable THEN cached ELSE reply[f]]
             /\ UNCHANGED lost

(* What was received is read last, when it is on disk already: the attempt *)
(* fails if it cannot be.                                                  *)
Answer(f) ==
    IF reply[f] \in Malformed
    THEN Lose(f) /\ Retry(f)
    ELSE /\ Return(f, "done")
         /\ returned' = [returned EXCEPT ![f] = reply[f]]
         /\ UNCHANGED lost

Write(f) ==
    /\ stage[f] = "write"
    /\ Answer(f)
    /\ LET file == CachePath(wanted[f]) IN
       /\ \E text \in Overwritten(body[file], reply[f]) :
              body' = [body EXCEPT ![file] = text]
       /\ writer' = [writer EXCEPT ![file] = IF @ = f THEN None ELSE "several"]
       /\ Disturb(file, f)
    /\ UNCHANGED <<published, etag, wanted, reply, fetches, upsets, cleaning, floor>>

(* The body cannot be written: the answer is read all the same. *)
CannotWrite(f) ==
    /\ stage[f] \in {"body", "write"}
    /\ Answer(f)
    /\ UNCHANGED <<published, files, wanted, reply, fetches, upsets, cleaning,
                   floor, writer, trusted>>

(* The process dies, or the task of the fetch is dropped at an await. *)
Die(f) ==
    /\ stage[f] \in Active
    /\ upsets < MaxUpsets
    /\ upsets' = upsets + 1
    /\ Return(f, "idle")
    /\ wanted' = [wanted EXCEPT ![f] = None]
    /\ reply' = [reply EXCEPT ![f] = None]
    /\ floor' = [floor EXCEPT ![f] = 1]
    /\ lost' = [lost EXCEPT ![f] = 0]
    /\ trusted' = [trusted EXCEPT ![f] = FALSE]
    /\ UNCHANGED <<published, files, returned, fetches, cleaning, writer>>

-----------------------------------------------------------------------------
(* The world around the fetches. *)

Publish(n) ==
    /\ published[n] < MaxVersion
    /\ published' = [published EXCEPT ![n] = @ + 1]
    /\ UNCHANGED <<files, stage, wanted, ifNoneMatch, reply, returned, attempt, fetches,
                   upsets, cleaning, history>>

(* cache_clean: remove_dir_all removes the files one by one. *)
CacheClean ==
    /\ cleaning = {} /\ upsets < MaxUpsets
    /\ upsets' = upsets + 1
    /\ cleaning' = {"json", "etag"} \X File
    /\ UNCHANGED <<published, files, stage, wanted, ifNoneMatch, reply, returned,
                   attempt, fetches, history>>

Saving(file) == \E f \in Fetch : stage[f] \in {"body", "write"} /\ CachePath(wanted[f]) = file

RemoveFile ==
    \E entry \in cleaning :
        LET file == entry[2] IN
        /\ cleaning' = cleaning \ {entry}
        /\ etag' = IF entry[1] = "etag" THEN [etag EXCEPT ![file] = None] ELSE etag
        /\ body' = IF entry[1] = "json" THEN [body EXCEPT ![file] = None] ELSE body
        /\ writer' = [writer EXCEPT ![file] =
                        IF etag'[file] = None /\ ~Saving(file) THEN None ELSE "several"]
        /\ Disturb(file, None)
        /\ UNCHANGED <<published, stage, wanted, ifNoneMatch, reply, returned, attempt,
                       fetches, upsets, floor, lost>>

-----------------------------------------------------------------------------
FetchStep(f) ==
    \/ Send(f) \/ Respond(f) \/ NetworkFails(f)
    \/ ReadCached(f) \/ CannotReadCached(f)
    \/ SaveEtag(f) \/ Truncate(f) \/ Write(f) \/ CannotWrite(f)

RegistryNext ==
    \/ \E f \in Fetch :
        \/ \E d \in Document : Start(f, d)
        \/ FetchStep(f)
        \/ Die(f)
    \/ \E n \in Updated : Publish(n)
    \/ CacheClean
    \/ RemoveFile

RegistrySpec == RegistryInit /\ [][RegistryNext]_registryVars

-----------------------------------------------------------------------------
(* Properties. *)

(* What a fetch returns is the document it asked for, no older than what   *)
(* the registry had when the last request was sent.  The exception: a 304  *)
(* answered from files that others wrote during the fetch, or that did not *)
(* agree with each other when it asked (registry.rs:222, 228, 234, 362).   *)
AnswersAreCurrent ==
    \A f \in Fetch : stage[f] = "done" =>
        \/ returned[f].doc = wanted[f] /\ returned[f].version >= floor[f]
        \/ reply[f] = None /\ ~trusted[f]

(* A fetch fails only when every attempt was lost to the network or to a   *)
(* text of the registry that the client cannot read, with the same         *)
(* exception: an etag without its body fails every fetch that follows      *)
(* (registry.rs:186, 238, 291).                                            *)
FailuresHaveACause ==
    \A f \in Fetch : stage[f] = "failed" => lost[f] = MaxRetries \/ ~trusted[f]

===============================================================================
