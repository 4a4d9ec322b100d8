------------------------------- MODULE Storage -------------------------------
(***************************************************************************)
(* kloppy.io and its adapters: opening inputs and outputs.                 *)
(*                                                                         *)
(* A read copies what the adapter gives into a stream of its own when the  *)
(* input is opened.  An output is a buffer: the with statement writes into *)
(* it, and its end hands it to the adapter.  The adapters of S3 and HTTP   *)
(* read through a cache on disk; which cache and which archive they use    *)
(* is looked up in the settings at the time of each call.                  *)
(*                                                                         *)
(* Content is the sequence of the chunks written, <<output, number>>.      *)
(* Compression is left out: an adapter packs and unpacks by the extension  *)
(* of the URL, the same on both sides.                                     *)
(***************************************************************************)
EXTENDS Config, FiniteSets, SequencesExt

CONSTANTS
    Urls,          \* paths and URLs
    Scheme,        \* of each: "file", "s3", "http", "zip", or one no adapter has
    Directories,   \* paths that are directories: what each lists, in the order
                   \* of _natural_sort_key
    Lists,         \* lists of paths, for the loaders of many files
    Inputs,        \* what open_as_file may be given, see Input
    NoArchive,     \* adapters.zip.fo when it is not set
    Published,     \* the locations that hold something at the start
    MaxOutputs,    \* bound on the outputs opened or published in a session
    MaxChunks      \* bound on the chunks of one output

Remote == {"s3", "http"}

\* kind: "path"; "data" is bytes or a text with "{" or "<"; "file" a file
\* object; "nothing" a Source without data; "other" any other object, or None.
Input == [kind : {"path", "data", "file", "nothing", "other"}, url : Urls,
          optional : BOOLEAN, skip_if_missing : BOOLEAN, mode : {"rb", "wb", "ab"}]

ASSUME StorageAssumption ==
    /\ DOMAIN Scheme = Urls
    /\ Inputs \subseteq Input
    /\ {"cache", "adapters.zip.fo"} \subseteq Keys

VARIABLES
    files,       \* what is stored, for each location
    cache,       \* the cached copies, for each pair of directory and URL
    outputs,     \* the outputs opened so far
    streams      \* what the last call read: the URLs and the contents, in order

storageVars == <<files, cache, outputs, streams>>

\* A member of an archive is stored per archive.
Location(url) ==
    IF Scheme[url] = "zip" THEN <<get_config("adapters.zip.fo"), url>> ELSE <<"", url>>

Chunks(n) == [k \in 1 .. outputs[n].length |-> <<n, k>>]

StorageInit ==
    /\ files = [place \in Published |-> <<<<0, 1>>>>]
    /\ cache = [place \in {} |-> <<>>]
    /\ outputs = <<>>
    /\ streams = <<>>

----------------------------------------------------------------------------
\* What an adapter does

Supported(url) == Scheme[url] \in {"file", "http", "s3", "zip"}

\* ZipAdapter refuses to work without an archive.
NeedsArchive(url) == Scheme[url] = "zip" /\ get_config("adapters.zip.fo") = NoArchive

Stored(url) == IF Location(url) \in DOMAIN files THEN files[Location(url)] ELSE <<>>

\* Fault: FileAdapter inherits the file system with the cache
CachedWithLocal(url) == Scheme[url] \in Remote \cup {"file"}

\* _get_filesystem_for_reading: the simplecache file system keeps the first
\* copy it fetched of a URL in the directory it is given.
Cached(url) == Scheme[url] \in Remote

Entry(url) == <<get_config("cache"), url>>

InCache(url) == Cached(url) /\ Entry(url) \in DOMAIN cache

Exists(url) == InCache(url) \/ Location(url) \in DOMAIN files

Content(url) == IF InCache(url) THEN cache[Entry(url)] ELSE Stored(url)

\* What keeps a URL from being read, or "none".
Unreadable(url) ==
    CASE ~ Supported(url) \/ NeedsArchive(url) -> "AdapterError"
      [] Supported(url) /\ ~ NeedsArchive(url) /\ ~ Exists(url) -> "InputNotFoundError"
      [] OTHER -> "none"

\* The URLs are read one after the other.
read_to_stream(urls) ==
    /\ LET fetched == {Entry(url) : url \in {u \in Range(urls) : Cached(u)}}
       IN  cache' = [place \in DOMAIN cache \cup fetched |->
                        IF place \in fetched THEN Content(place[2]) ELSE cache[place]]
    /\ streams' = [n \in DOMAIN urls |-> [url |-> urls[n], content |-> Content(urls[n])]]

\* What keeps an output from being handed over, or "none": the file system of HTTP
\* has no mode for writing, that of an archive none for appending.
Unwritable(url, mode) ==
    CASE NeedsArchive(url) -> "AdapterError"
      [] Scheme[url] = "http" -> "NotImplementedError"
      [] ~ NeedsArchive(url) /\ Scheme[url] = "zip" /\ mode = "ab" -> "ValueError"
      [] OTHER -> "none"

\* What is stored for a URL is replaced.
Store(url, content) ==
    files' = [place \in DOMAIN files \cup {Location(url)} |->
                 IF place = Location(url) THEN content ELSE files[place]]

\* mode "ab" appends to what is stored.
write_from_stream(url, mode, chunks) ==
    Store(url, IF mode = "ab" THEN Stored(url) \o chunks ELSE chunks)

----------------------------------------------------------------------------
\* open_as_file

\* What it raises before it looks at what is stored, or "none".
Refusal(input, mode) ==
    CASE input.kind = "nothing" /\ ~ input.optional -> "ValueError"
      [] input.kind = "other" -> "TypeError"
      [] input.kind = "data" /\ mode # "rb" -> "TypeError"
      [] input.kind = "file" /\ input.mode # mode -> "ValueError"
      [] input.kind = "path" /\ ~ Supported(input.url) -> "AdapterError"
      [] OTHER -> "none"

\* A stream over an object of the caller, or no stream at all: nothing here
\* changes.
OpenInPlace(input, mode) ==
    /\ input.kind # "path"
    /\ raised' = Refusal(input, mode)
    /\ UNCHANGED storageVars

\* What keeps it from handing out something to read, or "none".
Obstacle(input) ==
    CASE input.kind # "path" -> Refusal(input, "rb")
      [] input.kind = "path" /\ input.skip_if_missing
            /\ Unreadable(input.url) = "InputNotFoundError" -> "none"
      [] OTHER -> Unreadable(input.url)

\* The first input that cannot be opened, or 0.
Stop(inputs) == SelectInSeq(inputs, LAMBDA input : Obstacle(input) # "none")

FirstObstacle(inputs) == IF Stop(inputs) = 0 THEN "none" ELSE Obstacle(inputs[Stop(inputs)])

\* Inputs opened one after the other, up to the first that cannot be; those before
\* it have been read, those after it have not.
OpenEach(inputs) ==
    LET opened == IF Stop(inputs) = 0 THEN inputs ELSE SubSeq(inputs, 1, Stop(inputs) - 1)
        read == SelectSeq(opened, LAMBDA input : input.kind = "path"
                                                 /\ Unreadable(input.url) = "none")
    IN  /\ read_to_stream([n \in DOMAIN read |-> read[n].url])
        /\ UNCHANGED <<files, outputs>>

OpenForReading(input) ==
    /\ input.kind = "path"
    /\ raised' = Obstacle(input)
    /\ OpenEach(<<input>>)

OpenForWriting(input, mode) ==
    /\ input.kind = "path" /\ mode # "rb"
    /\ Len(outputs) < MaxOutputs
    /\ raised' = Refusal(input, mode)
    /\ outputs' = IF Refusal(input, mode) # "none" THEN outputs
                  ELSE Append(outputs, [url |-> input.url, mode |-> mode, length |-> 0,
                                        open |-> TRUE])
    /\ UNCHANGED <<files, cache, streams>>

\* Fault: the output is not buffered, every chunk goes to the adapter at once
WriteThrough(n) ==
    /\ outputs[n].open /\ outputs[n].length < MaxChunks
    /\ outputs' = [outputs EXCEPT ![n].length = @ + 1]
    /\ Store(outputs[n].url, IF outputs[n].length = 0 /\ outputs[n].mode = "wb"
                             THEN <<<<n, 1>>>>
                             ELSE Append(Stored(outputs[n].url), <<n, outputs[n].length + 1>>))
    /\ UNCHANGED <<cache, streams>> /\ Quietly

\* BufferedStream.write in the body of the with statement
Write(n) ==
    /\ outputs[n].open /\ outputs[n].length < MaxChunks
    /\ outputs' = [outputs EXCEPT ![n].length = @ + 1]
    /\ UNCHANGED <<files, cache, streams>> /\ Quietly

\* The finally clause of _write_context_manager: the body ended, or it raised
\* after any number of writes.
CloseOutput(n) ==
    LET output == outputs[n]
    IN  /\ output.open
        /\ outputs' = [outputs EXCEPT ![n].open = FALSE]
        /\ raised' = Unwritable(output.url, output.mode)
        /\ IF Unwritable(output.url, output.mode) = "none"
           THEN write_from_stream(output.url, output.mode, Chunks(n))
           ELSE UNCHANGED files
        /\ UNCHANGED <<cache, streams>>

\* External: another program replaces what a server holds.
Publish(url) ==
    /\ Scheme[url] \in Remote
    /\ Len(outputs) < MaxOutputs
    /\ outputs' = Append(outputs, [url |-> url, mode |-> "wb", length |-> 1, open |-> FALSE])
    /\ Store(url, <<<<Len(outputs) + 1, 1>>>>)
    /\ UNCHANGED <<cache, streams, raised>>

----------------------------------------------------------------------------
\* expand_inputs: a directory is its files, a list is taken item by item.

expand_inputs(items) ==
    FlattenSeq([n \in DOMAIN items |-> IF items[n] \in DOMAIN Directories
                                       THEN Directories[items[n]] ELSE <<items[n]>>])

Required(url) == [kind |-> "path", url |-> url, optional |-> FALSE,
                  skip_if_missing |-> FALSE, mode |-> "rb"]

\* A loader of many files opens each as it comes.
ReadEach(items) ==
    LET inputs == [n \in DOMAIN expand_inputs(items) |-> Required(expand_inputs(items)[n])]
    IN  /\ raised' = FirstObstacle(inputs)
        /\ OpenEach(inputs)

----------------------------------------------------------------------------
\* No torn data: what is stored, what is cached and what a reader was given are
\* sequences of whole outputs, each with all its chunks, in order, and with none
\* of another output between them, whichever outputs were open at the same time
\* (_write_context_manager, FSSpecAdapter.write_from_stream).
OfWholeOutputs(content) ==
    \A i \in DOMAIN content :
        LET n == content[i][1]
            k == content[i][2]
            first == i - k + 1
            size == IF n = 0 THEN 1 ELSE outputs[n].length
        IN  /\ first >= 1 /\ first + size - 1 <= Len(content)
            /\ \A j \in 1 .. size : content[first + j - 1] = <<n, j>>
            /\ n # 0 => ~ outputs[n].open

OutputsAreWhole ==
    /\ \A place \in DOMAIN files : OfWholeOutputs(files[place])
    /\ \A place \in DOMAIN cache : OfWholeOutputs(cache[place])
    /\ \A n \in DOMAIN streams : OfWholeOutputs(streams[n].content)

\* Only the cache makes a read stale: what was read of several files, one after
\* the other, is what is stored now, but for the URLs of servers, and their content
\* was fetched into the cache the settings name now (FileAdapter and ZipAdapter read
\* without the cache, S3 and HTTP through it).
StaleOnlyFromCache ==
    [][ \A n \in DOMAIN streams' :
            LET url == streams'[n].url
                content == streams'[n].content
            IN  streams' # streams /\ content # Stored(url) =>
                    /\ Scheme[url] \in Remote
                    /\ Entry(url) \in DOMAIN cache
                    /\ cache[Entry(url)] = content ]_<<streams>>

==============================================================================
