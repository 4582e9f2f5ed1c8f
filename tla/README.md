# A verification model of the TEAM-TSC web server

The repository is a small C++ web server on Boost.Asio: a `Server` accepts
connections, a pool of threads runs their completion handlers, each `Connection`
reads requests, finds the handler whose prefix fits, and writes the response. One
of the handlers is a caching reverse proxy. This directory models the parts of it
that carry state from one step to the next, checks the models with TLC, and proves
some of the results with TLAPS for every value of the constants.

Paths below are relative to `src/src/` unless they start with `src/`.

## 1. Inventory

| Component | State | Operations | Talks to |
|---|---|---|---|
| `Server` (server.h/.cc) | acceptor, the member `socket_`, the `handlers` map, `total_thread_num_` | `init`, `run`, `do_accept`, `handle_accept` | asio; makes a `Connection` per accepted socket |
| `Connection` (connection.h/.cc) | socket, `buffer_`, `raw_request`, `request`, `response` | `start`, `do_read_partial`/`handle_read_partial`, `do_read_body`/`handle_read_body`, `ProcessRequest`, `compress_payload`, `do_write`/`handle_write` | asio (callbacks), handlers (calls), `ServerStatus` (calls) |
| `Request` (request.h/.cc) | method, uri, version, headers, body | `Parse`, `AppendBody`, `GetHeaderValueByName`, `uri_decode`, `ToString` | |
| `Response` (response.h/.cc), `ErrorHandler`, `Compression` | status, headers, body, raw response, image flag | `SetStatus`, `SetBody`, `AddHeader`, `SetRawResponse`, `ToString`, `Clear`; the error pages; gzip and deflate | |
| `ServerStatus` (singleton), `StatusHandler` | `uri_visit_count`, `status_code_count`, `handler_to_uri`, `total_visit` | `insertRecord`, `getStatusString`, `addHandlerToUri` | written by every connection, on any thread |
| `ProxyHandler` (proxy_handler.h/.cc) | `cache_` (expiration and tag per path), the files under `./proxy_cache` | `Init`, `HandleRequest`, `MakeRequest`, `HandleCache`, `UpdateCache`, `MakeCache`, `ParseLocation` | origin servers (blocking), the file system, the clock |
| `NginxConfigParser`, `ConfigHandler` | stack of blocks; `config_opt` | `Parse`, `ParseToken`, `handle_config`, `handle_statements` | called by `Server::init` |
| `DbHandler` | the sessions it has open at MySQL, the table there | `HandleRequest`, `QueryTable`, `UpdateTable`, `ParseBody` | MySQL (blocking) |
| `PythonHandler`, `src/python-bin/database.py` | the interpreter of the process; a session of its own per call | `Init`, `HandleRequest`, `ParseBody`; `PythonApp` | CPython, MySQL through the script |
| `StaticFileHandler` | its prefix and root directory | `Init`, `HandleRequest`, `extension2type` | file system, cpp-markdown |
| `EchoHandler` | none | `HandleRequest` | |
| `RequestHandler` and its registry | map of constructors, filled before `main` | `CreateByName` | `Server::init` |
| main.cc, deployment, content, tests | none that changes at run time | | |

What is hard here:

* *Threads without locks.* All threads run `io_service::run`; there is no strand and
  no mutex. Handlers, `ServerStatus`, `ProxyHandler::cache_` and the cache files are
  shared by all of them.
* *Callbacks.* A connection is a chain of completion handlers that pass state in
  members (`request`, `response`, `buffer_`), and the next request reuses them.
* *The stream.* TCP delivers a request in any pieces; clients may pipeline, send
  less or more than they announce, or go away at any point.
* *Recursion through a cache.* `HandleRequest`, `HandleCache` and `UpdateCache` call
  each other while other threads change what they looked up.
* *Shared services.* `DbHandler` and the script open sessions to one MySQL server, which allows
  so many at a time; all threads initialise and finalise one Python interpreter.
* *Failure.* An exception in a completion handler leaves the pool thread and ends
  the process; errors of origins, files and accepts are handled in different ways.

The properties that make each part correct:

* Connection: each request is handled once, in order, with its own head and body;
  it is answered; the socket closes when the reply said so and not otherwise.
* Response: length, coding and page agree with each other and with the status line.
* Routing: the longest configured prefix gets the request; the search ends; the
  shared map does not change.
* ServerStatus: the counters are the number of replies; races never invent any.
* ProxyHandler: a reply from the cache is whole, of the resource asked for, and no
  older than its origin allows; every request returns, and one revalidation never starts another.
* Handlers: a form reaches MySQL as it was typed; a query sees what was answered before it;
  sessions and interpreters are given back on every way out; a file is sent as what its name
  says; a request that fails does not end the process.
* Server: no connection is used by two threads or lost; clients are accepted.
* Configuration: what is accepted is built as it is written, and the server runs with it.

## 2. Modules

| Module | Models |
|---|---|
| `Response` | the `Response` object as a record; error pages, status line, compression |
| `ServerStatus` | the counters as a value, and one undisturbed `insertRecord` |
| `Connection` | one connection, its TCP stream and its client; extends the two above |
| `Exchange` | what a connection promises, without streams and buffers: the abstract specification |
| `ProcessRequest` | `Connection::ProcessRequest`, step by step |
| `StatusRace` | `insertRecord` and `getStatusString` under several threads |
| `ProxyHandler` | proxies, threads, cache entries, files, origins, clock |
| `Server` | the accept loop and the thread pool |
| `ConfigParser` | `ParseToken`, `Parse` and `ToString`, as operators on the parser's state |
| `ServerInit` | `Server::init`: parsing, `handle_statements`, making the handlers; extends `ConfigParser` |
| `FormBody` | `Request::uri_decode` and `ParseBody`, as operators, with the browser's encoding beside them |
| `HandlerPool` | what the threads share in the next three: MySQL's sessions and table, the interpreter |
| `DbHandler`, `PythonHandler`, `StaticFileHandler` | `HandleRequest` of each, step by step |
| `Handlers` | the three composed, on the threads of the pool |
| `MC...` | the instances TLC checks |
| `...Proofs` | the theorems about the module they are named after |
| `FoldLemmas` | induction over sequences, and what a fold computes, for the proofs |

**Connection.** An action is a whole completion handler: `handle_read_partial` has one
for each way out (`HandleReadPartialBad`, `-Throw`, `-More`, `-Whole`), and each
includes the `do_write` or `do_read_body` the code calls before it returns. `op` is the
one asynchronous operation the connection has pending. The stream is a sequence of
units: a request head, the blank line, a zero byte, a body byte. A body is the set of
positions it was taken from, so that "the body the handler saw" can be compared with
"the body that was sent". `ParsedHeads` is what the regular expressions of
`Request::Parse` accept: they are greedy, and see the text up to its first zero byte.
What a request handler does is reduced to what it leaves behind (`Outcome`): a status, a
plain or a relayed response, an image or not, a size. A relayed response (`raw`) is sent
as the origin wrote it, so that the `Connection` header the client sees
(`SentConnection`) is the origin's and not the one `do_write` has added. `do_write` hands
asio the buffer of a temporary string: the part `FirstWrite` takes is sent at once, the part
that is left from freed memory (`WriteRest`, which says how much is sent, not what).

**Exchange** numbers requests in the order they are asked and answers them in that order, each
at most once (0 is the answer to what was no request), nothing after one that asked for a close,
and ends for a reason only. `Connection` maps to it by numbering a request by the position of
its head: `asked` is the heads in the stream, `answers` the log of handler runs, `open` whether
an operation is pending. A client may go on asking while the server is at an earlier request,
and requests may be skipped, when a wrong length made them part of another's body.

**ProcessRequest** takes the loop of connection.cc:111-116 apart. URIs are sequences of
the texts between slashes, so `find_last_of` and `substr` become `SubSeq`.

**StatusRace** splits `++map[key]` into lookup, insertion, load and store. Two overlapping
operations on a `std::map`, one of them an insertion, are undefined: the outcomes taken
are nothing, a crash, and a second node that hides the first.

**ProxyHandler** has a stack of frames per thread, one per `HandleRequest` in progress.
Lookup (line 290), expiration check (290), taking the tag (372), erasing (376), reading the
file, fetching, opening (which truncates), writing and entering are separate actions, and other
threads may act between them; each use of the map may insert. URIs are sequences of characters, and
`Strip` erases the text of the prefix from wherever it first occurs, as `string::find` does:
at the client's request, and once more when `UpdateCache` passes the rest on. The directory tree
is kept, because `/a` as a file and as the directory of `/a/b/c` exclude each other. Headers of an
origin that `substr` or `stoi` cannot take (`FetchThrows`, `UpdateThrows`) and calls nested deeper
than the stack has room for (`StackOverflows`) end the process.
An origin's resource has versions; the version is both the body and the entity tag. `ParseLocation`
makes the next target of a `Location`, relative or absolute. Where redirects lead is defined apart from
it (`LeadsTo`), from the closed sets of resources, and is what a reply is compared with.

**Server** keeps of a connection handler only when it still uses the connection and when it
starts the next operation, and lets any thread take any ready handler. It justifies
that `Connection` runs the handlers of a connection one after the other.

**ConfigParser** reads letters that always come together as one character. The statements of
all blocks are one sequence, each with the number of its block: the tree of `NginxConfig`
without pointers. **ServerInit** reads a file piece by piece from a set of fragments (what is not
read is not chosen), then runs `handle_statements` with an explicit stack of calls, one action
per kind of statement, then makes the handlers in the order `init` does.

**Handlers.** A thread is idle or at a step of a handler; a step is what happens between two
calls to a service that others use too. `DbHandler` connects, runs its one statement, deletes its
objects: an `SQLException` on the way is answered, and leaves the session open until MySQL
expires it (`Expire`). `PythonHandler` initialises the interpreter, imports, calls, finalises; the
steps of the call are those of `database.py`. `interp` records for whom the interpreter was
initialised and how often the scripts' directory was appended to `sys.path`. What undefined behaviour
may do (two threads in the interpreter without its lock, references released twice) is `PyFault`:
the end of the process, or nothing. Texts are sequences of tokens, a token being a name, a
delimiter or an escape, so that `FormBody` decodes and takes apart what the code does.
`StaticFileHandler` computes the path and the type from such a text and walks the disk with it, name by
name from `Root`: up to the first zero byte, staying at `.` and empty names, going up at `..`. What is on
the disk is a constant: `Files`, `Directories`, and `Refused`, the places where a lookup
is an error other than that nothing is there (a name that is too long, a directory that may not be
searched, links in a circle), on which `exists` throws. Other links are not modelled. `told`,
`failed` and `overlapped` are history variables of the properties.

How they compose: `ServerInit` ends where `Server` begins (`do_accept` is called), and its
prefixes are what `ProcessRequest` calls `Keys`; `Server` runs the handlers of `Connection`, `Connection` calls
`ProcessRequest` and then a handler, `ProxyHandler` and the three of `Handlers` are some of these. Each is checked with the
others reduced to what it sees of them: a combined state space would multiply without
adding an interaction that these interfaces leave out.

## 3. Runs

Passing:

| Run | Shows | Bounds, and why they are enough |
|---|---|---|
| `conn_sequential` | one request at a time, in any pieces: handled with exactly its head and body, answered, with consistent headers, and counted | 3 requests (a connection that was used, is used and is used again), bodies up to 2 units (a body can be cut), replies up to `WriteMax`, 12 kinds of request: every outcome with and without a coding |
| `conn_any_client` | pipelining and malformed streams: at most once, in order, closed as a reply of the server's own announced; the connection implements `Exchange` | 2 requests suffice for a leftover of one to meet the next; 11 kinds, among them blank lines and zero bytes in bodies and relayed replies; `WriteMax = 1` so that replies are split |
| `process_request` | routing against its reference definition | all URIs up to 3 segments over `""` and `"a"` (doubled and trailing slashes included), all sets of keys up to 2 segments and one of 3 |
| `status_threads` | races only lose increments; without overlap all is exact | 2 threads, 3 records, 2 codes, symmetric threads |
| `proxy_single` | freshness, granted max-age, files behind entries, no revalidation within one | 3 requests (store, use or expire, revalidate), MaxAge 2 in a clock of 3 (before, at and after the expiration), 1 new version, 3 URIs, a path clash among them, and a redirect by way of another host; malformed headers; `MaxDepth = 3` frames, one more than a revalidation needs |
| `proxy_threads` | right resource and termination with two threads | 2 threads, 3 requests below the prefix `/q`: a resource, a redirect to another host that goes on with a relative `Location` there, and `/q/qx`, which still holds the text `/q` once it is erased; origins that fail and that answer 404. No new versions: which of them a body is does not matter here. `MaxDepth = 3`, which two threads that insert the entry for each other reach |
| `handler_threads` | forms arrive as typed; queries see answered updates; sessions are lost to throwing statements only; an interpreter per request until two overlap; files as what they are; what may end the process | 2 threads, 2 sessions, 3 requests: two leaks and a refusal, or an update, its answer and a query, or two scripts at a time and a third after them. 31 requests: both handlers with right and wrong statements and statements with every character that is encoded, bodies that are no forms, scripts that are not there or return no string, files with points and slashes in every place, `.`, `..` and a zero byte written as escapes, a name the disk refuses. Threads and sessions are symmetric |
| `server_init` | the server runs with exactly the handlers, port and threads of an accepted file; the tree prints back; no handler is replaced; the status page lists those there are | files of 4 pieces out of 24: a server block around two statements, nested blocks, the same path in two blocks, unfinished statements, quotes, comments |
| `server` | one thread per connection, no socket lost, clients accepted | 2 threads, 3 clients, 1 that holds its thread: a client can be waiting while another keeps the only free thread busy |

Violated, each a disagreement with the sentence its finding in PROJECT.json quotes:

| Run | What happens |
|---|---|
| `conn_bad_length` | a Content-Length that is not a number throws through `io_service::run` and ends the process (connection.cc:64) |
| `proxy_uncacheable` | a 200 that may not be stored confirms the expired file, which is then served (proxy_handler.cc:427) |
| `server_accept_error` | after one failed accept nothing is accepted again (server.cc:150) |

Some passing properties state the condition under which they hold:
`SequentialCountsExact` and `PageConsistent` say "until two calls overlap" (`overlapped`
records it); `EntryHasFile` excepts clashing paths; `ClientsAccepted` says "until an accept
failed"; `ServedUntilFailure` says "until a statement has thrown" and "as many sessions as threads";
`OwnInterpreter` says "until two threads overlap"; `ClosesAsAnnounced` excepts relayed replies, whose
header is the origin's; `FilesRight` excepts prefixes with escapes and URIs with names no
directory can have (`Plain`: none that is `.` or `..` or holds a zero byte once decoded);
`conn_sequential` sends no blank line and no zero byte in a body, and `proxy_single`
has one thread, one handler, cacheable resources that stay cacheable, and `ETag`. `EndsExplained` does
not except anything: it lists what ends the process, a disk that refuses a name with the rest. In
all instances of `ProxyHandler` no URI has an empty segment or one that starts with a point, so that no file is
spelled in two ways.

Deadlock is checked in `process_request` only. The other systems stop legitimately: the
client sends no more requests, or the process has ended.

### Fairness

* `Connection`: weak fairness of the network and of the completion handlers, that is: the
  kernel delivers what was sent and `io_service::run` calls the handler of what completed.
  Nothing is assumed of the client but that it reads while it is there.
* `ProcessRequest`: a call runs to its end.
* `ProxyHandler`: each thread keeps running. `Fetch` and `FetchFails` belong to this, so
  origins are assumed to answer or fail: the code has no timeout. Reading a file that could
  not be opened never ends (`spin`), and has no fairness to save it.
* `Server`: handlers return, except those of the clients in `Stuck`. asio's queue of ready
  handlers and the listen queue are first come, first served, which is what the strong
  fairness of `Take` and `AcceptCompletes` says of an action that is enabled again and again.

## 4. Proofs

Checked by TLAPS for every value of the constants that satisfies the named assumptions:

* `ConnectionProofs`: `TypeOK`, `OnceInOrder`, `NothingAfterClose`, `ClosesAsAnnounced`.
  None is inductive. `IndInv` adds `Positions` (what is consumed was read, what was read
  was sent), `RequestIsHead` (the request member is a consumed head), `AnsweredHeads`
  (answered heads are consumed, and lie before the one whose body is awaited) and
  `ClosePending` (if any answered request asked for a close, it is the request member and
  nothing is being read). A failed `Parse` leaves the request member stale; `ClosePending` is
  the reason that this does no harm. `Announced` relates the header of the reply to what
  `handle_write` will do, and gives the action property. The argument goes through the actions,
  with a lemma for `do_write`, which four of them share.

  `ReplyInv` gives `RepliesConsistent` and `StatusCountsReplies`: a response is made from an empty
  one, whatever the reply before left in the member, and each is counted once, under the key its
  status has; every outcome of a handler and every code goes through `compress_payload`.
  `RepliesMatchRequests` needs a client that waits for its replies and frames its requests as it
  says (`OneAtATime`). Then `SeqInv` can say all that is in the stream: between requests everything
  is consumed (`Settled`), and otherwise one head, its end and the bytes of its body, cut
  anywhere. The requests of `conn_sequential` meet this. `ClosesAsAnnounced` is for any client, and for the
  replies that are not relayed.

  `ImplementsExchange`: every step of `Connection` is a step of `Exchange` or
  a stutter. Most are stutters; what has to be shown of the others needs more than `IndInv`:
  `ReadingOn` (while the next request is awaited, the request member asked for no close),
  `WritingLast` (while a reply is written and the request member asked for a close, it is the last
  one answered), `HeadFirst` (what is refused was something sent) and `AnswersHeads` (what is logged
  is a head of the stream). `handle_write`'s close maps to `End` because the request member, stale or not, is
  then the last one answered.
* `ProcessRequestProofs`: `TypeOK`, `RoutesToLongest`, `HandlersNeverGrow`. `Searching` says
  that no longer prefix than the current one is a key, `Found` that what is about to be called is
  what the reference says. That `operator[]` does not insert follows from `Found`.
* `HandlersProofs`: `TypeOK`, `ReadsAnswered`, `ServedUntilFailure`, `OwnInterpreter`, `EndsExplained`, for any number of
  threads and sessions and any requests, scripts and files. `IndInv` adds `RunsItsHandler` and
  `NoPageYet` (what a thread at a given step has in its frame), `OneConnection`, `SessionsHeld` (until
  a statement has thrown, every open session is held by a thread) and `ToldInTable` (what clients
  know of, and what they are about to be told, is in the table). `IndInv` is taken apart into
  what it says of one thread (`Good`), which a step of another keeps (`GoodGrows`), and the rest.
  That a thread finds a session is a pigeonhole argument over `SessionsHeld` (`RoomForOne`).
  `EndsExplained` needs that a decoded URI is shorter than its prefix for an escape in the prefix only
  (`CharactersPlain`); that a name is refused is one of the ends it lists, so nothing is assumed of the disk.

  `FormsArrive`, for forms of any fields, values and characters. A form is encoded as a browser does
  (`Encoded`), and what `ParseBody` makes of it is what was typed: `uri_decode` gives back each character,
  an encoded text has no `&` and no `=`, so the ampersands cut the body between its fields and the
  greedy expression cuts each field after its name. Each of these is an induction over a text
  or over the fields of a form (`FoldLemmas`). That a form is not refused either is the part
  `RefusesUnreadable` of `IndInv`: what is refused cannot be read.

  `FilesRight`, for any disk and any plain URI (`Plain`). What the client means (`Meant`) is the URI cut after the
  prefix and then decoded; the code decodes and then cuts, which is the same for a prefix without escapes.
  The names the client asks for are in the text by places, each after a slash (`Names`, `NamesSpelled`). The code's side is
  the fold `OnDisk` over the characters. An induction over them shows that the walk is, at each slash, where
  the names so far lead: a name goes down (`WalkName`), an empty one stays (`WalkNowhere`), and once outside
  of what is on disk, a walk stays outside. So a file that either finds is found by both (`FileMeant`). That the
  type follows the name needs that the text ends as its last name does (`LastName`), and that what follows
  the last point and the last slash is one token when the name ends in a point and that token (`ExtensionIs`).

  Assumed: threads and sessions are finite sets, a request is for one of the three handlers, and
  the ghost fields of a request say what its client means: what was typed is what the body encodes, and the
  file named is the one the URI spells (`RequestsAssumption`, `FormsAssumption`, `NamesAssumption`). Of
  the disk: what a file or a directory is in is a directory, under a name a directory can have, and what is
  refused is neither (`DiskAssumption`). No URI has two points side by side before it is decoded
  (`PointsAssumption`: request.cc:37 refuses it). TLC evaluates these on the requests and the disk of the run.
* `ProxyHandlerProofs`: `TypeOK`, and `RepliesRight` while no two requests that share a file lead to
  different things (`NoAliases`), for any handlers, threads, origins and redirects. One handler whose URIs have
  different cache keys meets `NoAliases`, as in all runs; two handlers with different origins need not
  (§5). `TypeOK` lacks that a frame about to store, or one that holds a 304, has a code and an
  expiration that may go into a file and a map (`Frames`). `RightInv` says of every frame that
  its target and the body it holds are what its own URI leads to, of every bottom frame that its URI is the client's without the
  prefix, and of every file that its body is what a URI with that key leads to. It needs nothing of the map,
  which is why races on the map and on the files do no harm here. Redirects enter through two lemmas: what
  answers itself leads to itself, and what a Location leads to its redirect does.
  Assumed: stripping the prefix from a URI of the model gives one, and no URI is empty
  (`UrisAssumption`); no origin is called `"same"`, which stands for a `Location` without a host.

  The other four properties are about one thread (`OneThread`). Two break all of
  them: one truncates what the other reads or has an entry for, and they insert entries for each
  other while both revalidate. All four also need that the text of the prefix can be erased from a URI
  only once (`StripsOnce`: `UpdateCache` calls `HandleRequest` with a URI that is stripped already; under
  `/q` this leaves out `/q/qx` and `/q/query`). `UpdateNotNested` needs no more: a request of
  `UpdateCache` is for the path that was erased just before, and has found no entry there before a step can
  make one (`NestInv`). `EntryHasFile` needs one handler (`OneHandler`) and `NoAliases`. `WholeInv` says that
  a file is empty only between `Open` and `Write`, `BackedInv` that behind every
  entry, and behind every frame that came from one, there is a file or there can be none; files
  are never removed, which keeps it so. `CachedReplyFresh` and `MaxAgeGranted` need in addition origins
  that always let a URI be cached or never do, and do not forbid it in a 304 (`SteadyCaching`;
  `proxy_uncacheable` is what happens without it). `GrantedInv` follows the body on its way: what
  is about to be stored was current when it was fetched, a revalidated one has the tag of the
  file, which nobody has written since, and a frame that is about to read has an entry that had
  not expired when the request arrived. The instance of `proxy_single` meets all of these
  hypotheses (its prefix is `/`, and erasing the first slash of a URI puts it back); those of `proxy_threads`
  (two threads, `StripsOnce`) and `proxy_uncacheable` (`SteadyCaching`) do not.
* `StatusRaceProofs`: `TypeOK`, `NeverOvercounts`, for any number of threads. `LoadedRecorded`
  says that a loaded value is no more than what is recorded so far, which grows only.
  `SequentialCountsExact` and `PageConsistent`, for any finite set of URIs: until two calls overlap, at most
  one thread is at work, and what it has left to do is all that the counters lack of `recorded`
  (`QuietInv`). The sums are folds over sets; that a sum grows by what one of its terms grows by is shown for a smallest set
  without that property, which cannot be.
* `ServerInitProofs`: `TypeOK`, `PrintsBack`, `RunsAsConfigured`, `ListsHandlers` and `HandlersStay`, for any
  files of any fragments and any length, and whatever the handlers' `Init` say. Assumed: characters
  are strings, and `Number` gives natural numbers.

  *Paths.* The paths that `handle_statements` accepts differ across blocks and
  kinds (`PathsDiffer`, from `PathsKnown`), what is listed is the beginning of each
  kind's paths (`ListsPaths`), and the handlers are those that are listed (`MadeListed`). So
  the next path has no handler yet (`NextPath`).

  *Printing.* While a file is read, there is more to come of its open blocks. `Filled` is what statements
  print as a function of what the blocks are to hold after them, and `Prints` says that the tokens read so far,
  with anything that may still follow, are what the top then prints. Whatever `ParseToken` does to the stack
  and the statements keeps this (`Reading` is what it needs of the parser: numbers of blocks ascend on the stack,
  statements belong to blocks that are there). An accepted file has nothing more to come (`AcceptedPrintsBack`), and
  then `Filled` is what `Serialized` computes block by block: by induction from the last block down, for a block
  has a larger number than that of its statement (`SerializedIsFilled`).

  *Handling.* `handle_statements` visits the tree with a stack of calls; the property speaks of `ServerBlocks`, a
  least set, and of the last statement of the file. `Progress` joins the two: the calls in progress are for
  blocks that count, each has left the statements of its block with numbers above `n`, the last one
  handled, and a statement that counts and is above `n` is in one of these blocks, or in one that a
  statement above `n` opens. So the statements that count are taken in the order of the file
  (`NextIsFirst`), all of them in the end (`DoneAll`), and the options are what those done so far say
  (`Effects`). `AllMade` concludes this for the handlers.
* `ServerProofs`: `TypeOK`, `OneThreadPerConnection`, `NoClientLost`, for any clients and any pool,
  with or without stuck clients and failing accepts. `OneAccept` says that an accept is pending,
  completed or being handled, never two of these; `SocketHeld` that the member `socket_` is
  empty outside the last two; `Holders` that a client in `socket_` has no Connection yet, so that
  `handle_accept` does not start a second one beside a running handler. `Phases` ties what a
  thread runs to how far it is. The only assumption used is that no client is `Nobody`.

`FoldLemmas` has the induction these proofs use. The library's induction theorems
take an operator as a parameter, which no installed prover can instantiate; here the
hypothesis is the *set* of what it holds for (`UptoInduction`, `AppendInduction`), and the
operation of a fold is a *function* (`Folded`, `FoldValue`), so that what a fold computes
can be proved for texts and forms of every length.

Only model-checked: the liveness properties `EveryRequestAnswered`, `CallsReturn`, `RequestsReturn` and
`ClientsAccepted`, which rest on fairness and `ENABLED`. Every invariant, every action property and the
refinement that the passing runs check are proved, under the hypotheses named above.

## 5. Seen while modelling, without a run

The connection:

* connection.cc:187: asio hands over 64 KB at most at once; what is left of a larger reply
  (`src/content1/comparison-1.png` has 138469 bytes) is sent from freed memory.
* request.cc:19: `c_str()` ends a body at its first zero byte, and the connection waits for
  bytes that have come. With a body of a zero byte and another, `EveryRequestAnswered` fails.
  request.cc:18: a blank line in a body makes a valid request malformed, unless the body is read
  later than its head; with one, `RepliesMatchRequests` fails.
* connection.cc:181: the `Connection` header of a relayed reply is the origin's, which was asked for a
  close (proxy_handler.cc:228), while `handle_write` follows the client's request:
  `src/content1/server_feature.md`:77-78 says that the reply follows the scheme of the client. The reply to
  a malformed request that asks for a close says keep-alive.
* server_status.cc:24: relayed responses have status none and count as 500. Line 38: two threads
  that overlap in `insertRecord` lose increments.
* request_handler.h:34-37 says that a failing handler is answered with 500; its status,
  400 or 404, is kept.
* `src/content1/server_feature.md`:64 says that only big files are compressed; all are.

The proxy:

* Line 269: a file is truncated and written while another thread reads it, under an entry that is already
  there: the reply is empty, cut off, or of two responses. Two proxies, as in
  `src/public_proxy_config_file`, overwrite each other's files, each of which the other's entries
  vouch for: a reply may be of the other origin's resource.
* Line 64: the prefix is erased from wherever it occurs, and by way of line 378 twice. Under `/q`,
  `/q/query` is cached as `/query` and revalidated as `/uery`; after a 200 for that, the expired file is
  served, with a max-age that is for ever.
* Lines 290, 372 and 376: the map is used three times without a lock. Two threads can insert the
  entry for each other at every revalidation, which then calls another until the stack overflows.
* Lines 138, 152-157 and 399-404: a header of the origin without a value, or a max-age that is no number,
  throws, and nothing catches.
* Line 424: a 304 without max-age leaves `not_a_date_time` in the entry. Lines 166 and 411 spell
  the header `ETag` and `Etag`. Line 71: a POST to a cached path is answered from the cache.
  Line 251: `/` and `/index` have one key. Line 309: the loop that reads a file which could not be
  opened does not end. Line 79: redirects are followed without a bound, and a 302 without
  `Location` repeats the same request.

Configuration and handlers:

* config_parser.cc:147: a last word without a delimiter is dropped, and the file accepted,
  although config_parser.h:39 says that true means a valid file. config_handler.cc:91-127: a path
  of an unknown handler is accepted and has no effect. server.cc:111: a configured `/DbHandler`
  is replaced (the status page lists it all the same). config_handler.cc:67: the port `80x` is
  accepted as 80 and fails in the resolver.
* db_handler.cc:32: every statement that throws keeps a session. `src/content1/server_feature.md`:50-52
  leaves the database out of the load test for the number of its connections.
  db_handler.cc:56: the error of MySQL is a page of status 200. Line 107: an update sent as a query
  may be done and answered with an error.
* python_handler.cc:75: two requests share an interpreter, and the first to end finalises it under
  the other. Line 114: a script that returns no string ends the process. Lines 138 and 140 release
  references that are not owned. Line 64: `/a.b/c` runs the script `c`, for the length wraps.
* static_file_handler.cc:74: `exists` is the overload that throws: a name longer than the file system
  takes, a directory that may not be searched, or links in a circle end the process.
* static_file_handler.cc:74 and 83 give the file system a C string: a name ends at a decoded zero byte, so that
  `a.html%00.png` is the page, sent as a picture; `.` and `..` written as escapes pass
  request.cc:37, which looks for `..` before decoding, and are resolved, `..` also above the root.
* static_file_handler.cc:56: a prefix with an escape is longer than what the decoded URI has of
  it: the wrong file, or `out_of_range` and the end of the process. request.cc:81: `+` is a space in
  paths as well as in forms.

## 6. Not modelled

What PROJECT.json lists as such, and why:

* main.cc calls `init` and `run` and catches what its own thread throws.
* `EchoHandler` copies the request into the response, which is one of the outcomes of `Connection`.
* cpp-markdown is vendored: a renderer without state. `StaticFileHandler` has a flag for it.
* Deployment, content and tests are not part of the running server.

In the modelled parts: wording and layout of responses, the bytes of headers, `Request::ToString`,
`handler_to_uri` (written before the threads start, so `ServerInit` has it), and `MakeRequest` but for its
`If-None-Match` and the headers that throw; redirects of origins end, two deep in the runs; links on the disk
and changes of it. What the client gets of a reply sent from freed memory is undefined and not followed. The handlers of
`Handlers` block on MySQL and CPython, which are assumed to answer: no liveness is claimed there.

## 7. Plan

The order so far was: the connection, routing and counters; the accept loop; the proxy; init and the parser;
the handlers; a proof of each as soon as TLC agreed. What is left, by importance:

1. Runs for what §5 describes and a document contradicts: a reply larger than the socket takes, the header
   of a relayed reply, a torn and a shared cache file, a prefix erased twice, zero bytes and blank lines
   in bodies. The instances are small; each needs its property to be stated of the whole program.
2. Two proxies in `ProxyHandler` with URIs that share files without being aliases, and new versions under two
   threads: both are within the module, and need smaller bounds elsewhere.
3. Freshness for two threads: a reply that is whole is no older than max-age and the time that the threads
   overlapped.
4. An abstract cache (what a proxy promises, without files) that `ProxyHandler` implements for one thread.
5. `UpdateNotNested` for a URI that has the prefix twice: termination by a measure on its length.
