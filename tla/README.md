# libyu in TLA+

TLA+ models of libyu, the TLC runs that check them on small instances, and
proofs TLAPS checks for every value of the constants. Line numbers are those of
the sources under `src/`.

## The system

libyu is a header-only C++ library (`yu/`) with sample and application programs
(`app/`, `sample/`) and unit tests (`test/`). Its core is a stack of streams and,
on top of it, an HTTP server that runs one thread per connection.

| Part | State it keeps | Operations | How it meets the others |
|---|---|---|---|
| `stream/fdstream.hpp` | a write buffer and a read buffer of 1024 bytes, the flags of `std::ios` | put, flush, destructor (`write_all`), get (`underflow`) | `::write`/`::read` on a descriptor somebody else owns |
| `http/common.hpp`: chunked streams | a 1024-byte buffer at each end, `finished_`, `unread_size_`, `eof_` | put, flush, `finish`, destructor; get (`underflow`) | write to and read from an fdstream |
| `http/common.hpp`: `Header`, `sized_istream` | a map of fields, `Set-Cookie` values; bytes left | `read`, `write`, `add`; `underflow` | used by the two HTTP streams |
| `http/server_stream.hpp`, `http/client_stream.hpp` | request, response, `response_header_sent_`, the outgoing `Header` | `parse_request`, `set_status`, `set_header`, `send_header`; `request`, `parse_respose` | hand out body streams over the connection's stream |
| `http/simple_server.hpp` | listening socket, root widget, catch-all status | `run` (accept loop), `process` (a detached thread per connection), widgets' `handle` | descriptor table of the process, ServerStream, user code in widgets |
| `lang/unique_resource.hpp` | a resource, a deleter, `deleted_` | construct, move, assign, `reset`, `release`, destroy | owns the descriptors of the server and of the programs |
| `data/heap.hpp` | a vector in heap order | construct, `push`, `emplace`, `pop`, `drain`, `clear` | none |
| `crypt/blowfish.hpp`: cipher streams | a 1024-byte buffer, the cipher's chaining state, `finished_` | put, `finish`, destructor; get (`underflow`) | stack on any other stream |
| `crypt/blowfish.hpp`: Blowfish | subkeys and S-boxes | key schedule, `process` a block | used by the cipher streams and bcrypt |
| `json.hpp`, `utf8.hpp` | position in the input; nesting of the output | `parse`, `stringify`; `encode`, `next` | bodies of HTTP messages |
| `base64.hpp`, `digest/*.hpp` | partial groups and blocks | encode, decode; update, digest | none |
| `stream/teestream`, `repeatstream`, `nullstream` | a read buffer of 1024 bytes, a list of sinks | put, get, flush | copy to other streams; nullstream is the body of a request without one |
| `math/rational.hpp`, `math/utils.hpp` | numerator, denominator | arithmetic, comparison | none |
| `string/utils.hpp`, `lang/lexical_cast.hpp`, `test.hpp` | none | pure functions; a test runner | used by HTTP and the tests |
| `app/echo_server`, `app/simple_http_server` | a counter behind a mutex | one connection after the other | fdstream, ServerStream, json |
| other programs | none | straight line | |

What is hard about it:

* **Threads and descriptor numbers.** A thread of SimpleServer knows its
  connection only by a descriptor number, and the kernel gives the number to the
  next connection as soon as it is closed. That no response goes to the wrong
  client hangs on the order in which two local objects are destroyed.
* **Exceptions across streams.** Widgets may throw before or after the header is
  sent; the body stream's destructor writes on the way; the catch block sends a
  response of its own and may itself throw.
* **Buffers at their limits.** Every stream has a buffer of 1024 bytes; what
  happens to the byte that finds it full, to an empty flush, to a last block that
  is exactly full, is where the errors are.
* **The kernel.** `::write` takes a part, `::read` gives a part, either fails or
  meets the end, connections are cut at any byte, queues fill up and block.
* **Framing.** Messages follow each other on one connection with nothing between
  them: each reader must stop at the byte where the next one begins.
* **Ownership.** Moves, resets, releases and deleters that throw, in any order.

The correctness properties of each part follow from this: streams are reliable
byte channels or say that they are not; the server answers every connection once,
with the right status, on the right descriptor, and closes what it opened; a
resource is deleted exactly once; the heap is a priority queue; decrypting what
was encrypted gives the message back.

## The modules

`ByteChannel`, `PriorityQueue` are the abstract specifications. Each other
module models one part; `MC...` modules instantiate it for TLC where a
configuration file is not enough; `...Proofs` modules hold the theorems.

Four MC modules check several small machines in one run: `MCStreams` (the
descriptor stream, the two programs, the tees), `MCHeap` (the heap and the handles
of `UniqueResource`), `MCCipher` (cipher streams, Blowfish, the digest streams,
bcrypt) and `MCCodings` (JSON, base64, `Header`, `Rational`). Their variable `task` says which machine a behaviour is of; the
others rest, in one initial state of theirs, and each keeps its own variables,
`Init`, `Next` and properties. Nothing is composed that the code does not
compose: a state of such a run is a state of one machine.

### ByteChannel

What every stream promises: the writer appends, ever longer prefixes come out,
the end is announced after the last byte or because the channel broke.

### FdStream

One `fdstream`, the kernel and the peer. `Put`, `Sync`, `Destroy` and `Get` are
the calls of the program; `Write(n)`, `WriteFail`, `WriteAllDone` are the steps of
the loop in `write_all()`, `Read(n)` and `ReadEnd` those of `underflow()`: each
system call is a step of its own and takes any part of what it is asked for.
`pbuf`, `gbuf` are the two buffers, `total_sent` the local of `write_all()`,
`iostate` the flags. Bytes are their positions, so that loss, repetition and
reordering show. `EINTR` is a stutter.

The code does not remember how much `write_all()` had sent when `::write` fails
(`fdstream.hpp:44`): the next flush, or the destructor, starts over. The model
shows what this means for the peer: bytes may repeat, once per error, and none is
skipped (`OutAtLeastOnce`). Until an error happens the stream implements
`ByteChannel`.

### Programs

`app/echo_server.cpp` and `app/simple_http_server.cpp`: one process that accepts,
serves and closes one connection after the other. `Accept` makes the fdstream of a
connection, `Fill`, `WriteToken` and `WriteFails` are its system calls, `Echo` is a
turn of the loop of the echo, `ReadLine`, `ReadFields` and `ReadBody` are what
`request()` reads, `Route`, `Greet` and `Reply` what it does with it, `Close` the
destructors, in their order: the stream flushes, the FDCloser closes. `counter` is
`counter_`, `log` remembers who changed it. The kernel holds `Queue` tokens in each
direction, so both ends can wait for each other. Clients connect, send, say that
they sent everything, receive, or reset, in any order; they may stop anywhere.

A request has the tokens `request()` reads of it (`Reads`) and up to `Behind` more that
it never reads: the last chunk, which `ClientStream` sends behind every header, also
that of a GET (`client_stream.hpp:34`, `common.hpp:120`), a body nobody asked for, the
fields behind a bad request line, a body behind its first bad character. A client
sends them or not, before the server closes or after. What of them is with the kernel
when the server closes, or comes later, resets the connection, and a reset may take
the answer from the client (`CloseFd`, `Send`); what the stream's buffer took with the
rest does no harm. `CutOff` is input that ends in the middle of a request, where what
is left may still look whole: a request line without the end of its version is three
words, and a body without its last chunk is a JSON text.

`OwnAnswer` holds whatever they do. `EveryoneServed` is conditional, and the
condition is the program's contract: every client sends without waiting for its
answer, receives while it sends and does not reset, and the process lives. It is
not met by a client of the echo that waits for its first byte: the echo is
flushed when 1024 bytes are full or the input ends, and nobody else is served
meanwhile. What it promises is that the server comes to every client and lets it go
again, that the echo returns every byte, and that a request is answered if
the server took all that the client has sent (`AllTaken`). Without that condition it
does not hold: a client of this library that asks for "/" can lose its greeting when
its last chunk travels behind its header. No document promises otherwise; the program
is safe from it only as long as a request arrives whole before the first `::read`
of 1024 bytes. In the model because they are in the code: an unknown
`Transfer-Encoding` throws `std::runtime_error("Not impl")`, which the catch block
for `TransferError` lets pass, and the HTTP program ends; so it does at a client
that resets while it is answered, by SIGPIPE; a header that ends with
the input counts as whole, so the counter goes up for a request whose answer is
dropped.

### TeeStream

A source that ends, or a `repeatstream`, read through an `iteestream` that copies to
an `oteestream` over sinks that take what they have room for. `Tell` is
`xsputn()` and `overflow()`: all sinks are given everything, also behind one that
failed, so the sinks differ after a failure; the stream is `bad()` from then on.

### ChunkedTransfer

A `chunked_ostream` and a `chunked_istream` with buffers of different sizes over a
connection that may be cut at any byte, even inside a chunk-size line. The writing
program puts, flushes, finishes and destroys in any order, the reading program
gets. Tokens are chunk-size lines, bytes, line ends and the first byte of the next
message. `underflow()` is split where it waits for the connection. Implements
`ByteChannel`. Writing behind `finish()` is not modelled (the code does not check
for it). Behind a cut the reader may see a plain end of file: a chunk-size line
that is missing or malformed reads as zero (`common.hpp:185`).

### HttpExchange

A `ClientStream` (or a foreign client that may send `Content-Length` or no body)
and a `ServerStream` on one connection: heads and bodies as tokens, two queues of
the kernel with room for `Cap` tokens. Both ends share the actions of writing and
reading a message, as the code of the two classes does line by line; `Request` and
`Respond` are `request()` and `send_header()`. `header` counts how often "chunked"
was added to the end's own header: `Header::add()` joins values, so the second
message of a ServerStream or ClientStream announces `chunked,chunked`, which
`parse_request()` and `parse_respose()` refuse. One object per exchange is
therefore the only use that works, and the model's second exchange ends there:
this is how the code is, and no document of it says otherwise.

### StringUtils, Header

`StringUtils` has the functions of `string/utils.hpp` as operators on sequences of
character codes. `Header` is the class: `StartRead`, `ReadField` (a turn of the loop,
which may throw) and `EndRead` are `read()`, whose locals replace the object only at the
end; `AddField` is `add()`; `Send` writes the object and reads the text back at the
other end. `fields` is the `std::map` by `iLess`: the key in upper case stands for the
class of its spellings, the first of which is kept. `history` is what was read and
added as lines, and `Meaning` says what those mean. Of a set-cookie line every value
is kept; of any other name the values are joined by commas, and empty ones in front
of the first that is not are forgotten.

### SimpleServer

`run()` is `Accept`, `Spawn` and `RunThrows`; a thread in `process()` goes through
`Parse`, `Handle` (the chain of widgets), `CatchAllStatus`, `Error` (the inner catch
block), `Body` and `Finish` (the chunked response and its destructor), `Unwind`
(the destructor of the fdstream, which flushes) and `Close` (the destructor of the
descriptor's owner). `fdt` is the kernel's table: what a thread writes goes to
whatever connection its number names at that moment. Clients connect, send one of
`Requests` and may reset at any time; they may also do nothing for ever.
Widgets are `SimpleWidget`s with a number of blocks per path, or programs that
throw before or after `send_header()` or send a header and decline.

A request that meets end of file leaves the stream it shares with the response not
`good()`: no response is sent at all. A widget that throws after `send_header()`
yields a truncated body that still ends with a last-chunk. Both are in the model
because they are in the code.

### UniqueResource

Objects, resources, the program's hands, and how often the deleter was called for
each resource. Every member function is an action; a deleter that throws leaves
`deleted_` set (it is set first) and makes `reset(T)` lose its argument. The deleter is
the same for all: a move also moves `deleter_` away (lines 57 and 65), which leaves a
function pointer or a captureless lambda, all the repository uses, as it was; an
object given a new resource after its `std::function` was moved away is not modelled.

### PriorityQueue, Heap, HeapQueue

`Heap` is the vector with one action per level of `heap_up()` and `heap_down()`, and
the constructor that builds a heap from any vector. `HeapQueue` is the refinement
mapping to `PriorityQueue`, a bag that gives up an element none comes before.

### CipherStream

A message, an encrypting stream and a decrypting stream, each an ostream or an
istream, with a block cipher (ECB, CBC) or a stream cipher (CFB, OFB) and each of
the paddings. The cipher is abstract: decrypting gives the bytes back only when the
same bytes come in the same call of `process()`. What is modelled exactly is the
buffering: which bytes make a block, which blocks `overflow()` processes, what
`finish()` pads, when `underflow()` stops.

### Blowfish

The constructor and `process()`, a round at a step. `Schedule` is where `process()`
returns into the constructor, which runs it on the tables it is making. Words are
four bytes below `ByteBase`, the tables and the exclusive or are parameters with the
assumptions the inversion rests on.

### Sha2Stream

The buffer of the digest streams. `hs` is the sequence of bytes the compression
function was given since the last `reset()`, so that two digests are equal in the
model only if the same chunks were compressed. `Finish`, `FinishZero` and
`FinishLength` are `finish()`; `size` is `message_size_` as two words, with `WordBase` for
2^64, small enough for the carry to happen. `Padded` is the padding of FIPS 180-4.

### Bcrypt

`bcrypt_sha()` and `bcrypt_check()` over abstract hash functions: a hash is what went
into it. A setting is tokens ("rounds=", a number, "$", characters of the salt), and
the text of a digest is the setting it says it was made with. `Check` takes that text
apart at its last "$" and runs the same steps again. `SchemePieces` says what SHA-crypt
hashes first, without the loops: n bytes of `digest_b` for a password of n bytes, and a
piece for each binary digit of n.

### Base64

`encode()` and `decode()`, a character a step, over any bytes and any text.
`EncodeEnd` hands the text to the decoder. `BytesOf` and `Legal` say what a text means as a
string of bits, without the loop's cases.

### Rational

A number that is the target of `+=`, `-=`, `*=`, `/=`, in integers modulo `UintSize`.
`Added` and `Multiplied` follow the code with its special cases; `lost` records whether an
integer wrapped around, where the model stops. `Exact` compares each result with
the fraction in integers without bound, or with the rules for infinities and NaN.

### Utf8, JsonCoding, JsonGrammar

`Utf8` has `encode()` and the Decoder as operators on sequences of bytes, and the
table of well-formed sequences of the Unicode standard to hold them against.
`JsonCoding` is the stringifier as an operator and the parser as a machine: the
calls of the recursive `parse()`, `parseAny()` and `MemberParser` are the frames of
`stack`, and every call and every turn of a loop is a step. `target` is the
variable the text is parsed into, and `Throw` leaves of it what the exception does:
vectors, maps and strings are read into a local result and swapped in at the end,
the members of a class are read in place. `Values` are written and read back,
`Texts` are read. A double is its text.

`JsonGrammar` says what a text means, as a grammar, by trying every way to take the
text apart; the parser's one pass with one character of lookahead is compared with
it. The grammar is that of the library's tests: no `null`, integers cut off at the
point when there is no exponent, raw control characters allowed in strings.

## The runs

| Run | Instance | What it shows |
|---|---|---|
| `streams` | fdstream: buffers of 2, 4 bytes out, 3 in, 2 errors; programs: 2 clients, all 6 kinds of requests, 4 bytes of echo, 1 token behind what is read of a request, buffers and queues of 2; tees: buffers of 3, patterns of 1, 2 and 4, 2 sinks | `OutAtLeastOnce`, `NothingLost`, `InputComplete`, `WriteAllReturns`, `ImplementsChannel`; `OwnAnswer`, `EveryoneServed`; `TeeRight` |
| `chunked` | buffers of 3 and 2, 4 bytes | `BodyOnly`, `StopsAtTheEnd`, `MessageEnds`, `ImplementsChannel` |
| `http_exchange` | 2 requests, 3 pieces, 2 tokens in the kernel | `Framed`, `WholeBody`, `NoStandstill`, `Answered` |
| `server_descriptors` | 3 connections, 2 descriptor numbers, failures | `NoCrossTalk`, `OwnDescriptor`, `NoLeak` |
| `server_widgets` | 2 connections, 3 widgets, 6 kinds of requests | `OneResponse`, `RightStatus`, `Answered`, `Served` |
| `heap` | heap: up to 6 elements of 4 values with a tie; handles: 3 objects, 3 resources | `HeapInv`, `Returns`, `ImplementsQueue`; `Ownership` |
| `cipher` | streams: blocks of 2, buffers of 6, messages up to 9; Blowfish: words of 4 bits, 4 rounds, keys of 1 to 5 bytes; digests: chunks of 6, 20 bytes; bcrypt: 36 settings, 14 passwords | `SameText`, `RoundTrip`, `PrefixOnly`; `Inverts`; `DigestOfMessage`; `PreDigest`, `BcryptRight` |
| `codings` | JSON: numbers of up to 4 characters, texts of up to 3 lexemes in 7 surroundings, strings at the edges of UTF-8; base64: messages of up to 4 bytes, texts of up to 5 characters; `Header`: 2 reads of 2 of 9 lines, additions; `Rational`: 4 numerators, 4 denominators, modulo 16 | `Reads`, `RoundTrip`, `AllOrNothing`; `Base64Right`; `HeaderRight`; `RationalRight` |
| `cipher_long` | the same | **violated**: `OstreamEncryptsAll` |
| `cipher_istream_padding` | the same | **violated**: `IstreamEncryptsAlike` |
| `bcrypt_multiple` | the same | **violated**: `SchemeFollowed` |
| `json_exponent` | numbers with `E` | **violated**: `ExponentCounts` |

The bounds are small and chosen so that the interesting cases happen. A buffer of
two or three bytes is filled, overflowed and flushed while it is partly sent within
a few steps, and the code never looks at the size but to compare with it. Four
bytes of output are more than two bufferfuls of two with one left over. Three
connections over two numbers make one number name two connections in turn while
the other's thread still runs. Nine bytes in blocks of two and buffers of six reach a
full buffer, a full last block, a full last buffer (four bytes are one bufferful of
an istream) and one byte more. Six elements give a heap three levels with a parent
that has one child. The integer types of the JSON texts hold -8 to 11 and 0 to 11, so that
both limits are met by numbers of two characters; three lexemes behind
`{"m": 1,`, `{"n" :{"m":[1]`, `[[1],`, `{"t":` and `{"t":[1,` break off or go on at every place of
an object inside an object, of a vector inside a vector and of a skipped member.
The edges of UTF-8 are all strings of two of eleven bytes, four-byte sequences around
both limits, and the least and greatest character of every length.

Two clients of the programs are enough for one to wait for the other and to find
what it left; with buffers of two the third byte of echo overflows, the fourth waits
behind a full queue until the client receives, and what stands behind a request can be
read with its fields, stay with the kernel, or come too late. Three
tee characters in a buffer of three meet the end of a source at the end of the
buffer, one short of it and behind it; a pattern of four is longer than the buffer.
Digest chunks of six with a length of two end a message at every place of a chunk,
three chunks long, and `WordBase` 64 carries after eight bytes. The salts of bcrypt
are empty, random, cut off, contain a "$" or look like a setting; passwords have up
to three times the size of a hash, its multiples among them. Blowfish with bytes of
one bit has blocks of eight bits, all of which are encrypted under four keys. Four
bytes of base64 are a group and one of each rest (one of them empty), with lines
that end inside a group, with it, and behind the pads.
Two of nine lines of a header are every pair of the same name in two spellings,
empty and not, cookies, and lines that throw. Two operations on `Rational` are not bounded:
its state is one number, and all that can be reached are checked until one wraps.

**Fairness.** `FdStream`: a thread inside `write_all()` runs on, and the kernel
takes a byte or fails (a blocking descriptor with `SO_SNDTIMEO` unset may wait for
a peer that neither reads nor resets: then nothing returns, and nothing is
claimed of that case elsewhere). `SimpleServer`: the scheduler runs the accept
loop and every thread; nothing is assumed of clients. `ChunkedTransfer`: the
reading program reads on. `Programs`: the process is scheduled while any step of
the server is possible (it is one thread, and its system calls return when the
kernel has bytes or room); clients have no fairness, the polite ones are the premise
of `EveryoneServed`. `HttpExchange`: both programs go on with what they began
and the server program answers. `Heap`: a call runs to its end.

Deadlock is not checked where the programs of the model really stop: destroyed
streams, read messages, clients that left.

### What the violated runs show

* `cipher_long`: `cipher_ostreambuf::overflow(ch)` (`blowfish.hpp:465-479`) makes
  room but never stores `ch`. Every byte that finds the 1024-byte buffer full is
  lost while the stream reports success. The tests stop at short messages.
* `cipher_istream_padding`: `cipher_istreambuf::underflow()` (line 518) pads the
  last block it read; when the message ends with a block that is nothing, while
  `cipher_ostreambuf::finish()` adds a whole block of PKCS7 padding. The texts of
  the two classes differ, and decrypting the shorter one takes message bytes for
  padding. The tests use 14 bytes.
* `json_exponent`: an integer goes by way of `long double` only when its text holds
  `e` (`json.hpp:271`), but `getNumberPart()` accepts `E` as well (line 570): "1E1" is
  read as 1. The comment of line 264 wants every number with an exponent to go that
  way.
* `bcrypt_multiple`: for a password whose size is a positive multiple of `kBufSize` (32
  or 64 bytes) the loop of `bcrypt.hpp:137` stops with one block to go, and line 138
  takes `size % kBufSize`, no bytes, for the last one. SHA-crypt takes as many bytes
  of `digest_b` as the password has, so the digest is not that of
  `openssl passwd -5`, from which the tests take theirs
  (`test/digest_bcrypt_test.cpp:9`): other programs refuse the password, while
  `bcrypt_check()` agrees with itself (`BcryptRight`). The tests use 8, 4 and 68
  bytes. `PreDigest` shows that all other sizes follow the scheme.

More disagreements are kept out of properties that hold otherwise. `RoundTrip` of
`JsonGrammar` leaves out characters beyond U+FFFF with `ascii_only`: line 77 of
`json.hpp` writes them as `\u` with five or six digits, which reads back as another
character and a digit or two. `RoundTrip` of `CipherStream` leaves out, by
`DecryptsRight`, the messages of no bytes or of a multiple of 1016 read from an
istream: `underflow()` (`blowfish.hpp:533`) returns `*gptr()` even when the last bufferful
was all padding, and the message comes back with one byte too many.
Outside of the models: `Rational(1, 0)` from signed integers is minus infinity
and `Rational(-1, 0)` plus infinity, since `rational.hpp:38` takes the sign from
`(numerator > 0) == (denominator > 0)`; `split()` (`string/utils.hpp:34`) without
`max_tokens` allows as many tokens as characters, so that a string of n delimiters
gives n tokens, the last of them with a delimiter in it; and the decoder without pads
accepts a single character behind the last whole group, and a NUL as a pad, since
`base64.hpp:189` enters it into the table.

## The proofs

* `ProgramsProofs` has the handles and the programs that hold them, one behind the
  other. Of `UniqueResource`: `TypeCorrect`, and `OwnershipHolds`, for any sets of
  objects and resources. `Ownership` is inductive as it stands: "deleted at most
  once" alone is not, since a second owner would delete again; unique ownership is
  what rules it out. Of `Programs`, for any clients, sizes of buffers and queues and
  number of bytes: `ProgInvariance`, and from it `ProgTypeOKHolds` and
  `OwnAnswerHolds`. What a client has is right only because nothing else is
  anywhere between it and the server, so `PInv` follows the tokens from end to end.
  `Fresh`: a client in the backlog has been sent nothing, and what it sent waits
  untouched in its own queue. `EchoInv`: the answers of the client being served, the
  buffers of the stream, `hold` and its queue hold its bytes in the order they were
  sent (`Linked`), so that moving the first token from one to the next keeps the
  chain; a client that reset is out of the chain, and its answers are lost but never
  another's; the same goes for one whose connection was reset because a part of its
  request came after the close, and `Done`, the second half of the invariant, says
  that nobody is served or waits whose connection was closed. `HttpInv`: there is one answer at most between the stream and the
  client, and it is one of `Answers`; as a greeting carries the count, the proof also
  needs `counter` to be `CountAfter` of the log, whose last reset exists
  (`LatestReset`), and that a longer log keeps earlier answers right.
* `HeapProofs`: `TypeCorrect`, and `HeapOrderHolds`, for any set of values, any strict
  weak order (`HeapAssumption`) and any size. The heap order does not hold inside
  `heap_up()` and `heap_down()`; `SiftInv` says what is left of it: one place at most
  is out of order, the one the next level looks at, and the elements around that
  place are in order with each other. `HeapInv` is the conjunction. That the first
  element is the least follows from the heap order by induction over the tree, which
  is beyond the prover; TLC checks it as `ImplementsQueue`.
* `SimpleServerProofs`, for any number of connections, descriptors and requests and
  any chain of widgets. `OwnDescriptorHolds`, `NoCrossTalkHolds`: the inductive
  invariant `IInv` adds to the properties that a descriptor names one connection at
  most once, that a connection just accepted has no thread yet (`Fresh`), and that the
  tokens in a stream's buffer carry their connection's name (`OwnToken`). A thread
  closes its number as its last step, behind the flush of its stream; until then the
  number is not free, so `accept()` cannot return it again. `NoLeakHolds`: an open
  descriptor is that of a living thread, or of the connection `run()` is about to
  start one for. `OneResponseHolds`, `RightStatusHolds` and `AnsweredHolds` rest on a
  second invariant, `RInv`: what a connection was sent and what is still in its buffer
  (`Total`) is, at every place of the thread and for every widget the request has
  come to, the part of the one response (`Response`) the code has written by then.
* `StreamsProofs`, for buffers of any size, any number of bytes and of errors:
  `OutAtLeastOnceHolds`, `NothingLostHolds`, `InputCompleteHolds` and
  `ImplementsChannelHolds`. `Queued` and `AtWire` tie the buffer, `total_sent` and
  the last byte on the wire together; `Done` is the byte a pass over the buffer has
  come to, and `Repeats` counts: a byte behind `Done` has been sent once per error at
  most, one before it once more. The bound of the property alone is not inductive,
  since a pass that starts over would break it. For the refinement the channel's
  delivered prefix is the highest byte sent (`Highest`), which exists by `HasTop`; every
  `::write` that repeats bytes is a stutter of `ByteChannel`, every other one delivers
  a longer prefix.
* `StreamsProofs`, for any number of sinks with any room, any size of the buffer and any
  source: `TeeRightHolds`. `TeeInv` adds to the property where the source is: the
  program and the buffer hold all that was read of it, and `copied` is that number until
  a sink fails; otherwise the bound in the property would not survive the next
  `underflow()`. A `repeatstream` starts over in the middle of nothing because its buffer
  is a multiple of the pattern (`Around`, `SourceRight`); `TookFront` and `TellFacts` are
  the writing to the sinks; `MarksGrow` counts the copies among the program's own
  characters.
* `ChunkedTransferProofs`, for buffers of any two sizes, any body and a cut at any
  place: `BodyOnlyHolds`, `StopsAtTheEndHolds` and `ImplementsChannelHolds`. The
  invariant `UnderWay` runs an automaton of the chunked coding over the tokens the
  connection holds: started where the reader is (`ReaderAt`) it accepts them, and
  unless the connection was cut it ends where the writer is (`WriterAt`). Both sides
  move one end of that run. A chunk the reader has begun determines the automaton up
  to the chunk's end, however `underflow()` takes it.
* `HttpExchangeProofs`, for any number of requests, any lengths of their bodies and any
  capacity of the connection: `Invariance`, and from it `FramedHolds`,
  `WholeBodyHolds` and `NoStandstillHolds`. What is under way from an end, in its
  fdstream or with the kernel, is the rest of one message: `Rest(e, p)` says that the
  tokens from place `p` of the message of `e` to where its writer is are there, and
  nothing else. `Responses` and `Requests` say which `p` it is for each pair of places
  the two programs can be at; `Requests` holds as long as no request was answered
  unread (`skipped`). `OneHead` needs no such condition and is what keeps the two ends
  in step afterwards: the client asks one request at a time, so the head of one the
  server has parsed is not under way any more. `Settled` is the flush in `finish()`: an
  end that reads has written its message to the kernel. That the two programs never
  wait for each other in a write follows: while one message is under way, the other
  end has nothing in its buffer.
* `DigestProofs`, for every size of a chunk, of the length field and of a machine
  word, and messages of any size: `Invariance`, and from it `DigestOfMessageHolds`
  and `TypeCorrect`.
  `Text` says that the compressed bytes with the buffered ones behind them are the
  front of the padded message; `Counted`, that whole chunks were compressed and that
  `message_size_` is their bits in two words (`BitsAdded`: adding a chunk carries as
  the division by the word does). `Padding` holds inside `finish()`: when the length
  does not fit behind the mark, the turns still to go are one more than the free
  places of the buffer, so the last of them has the chunk processed and leaves one
  zero; `PaddedSizes` is why the standard takes one chunk more in the same case.
* `DigestProofs`, for every setting, password, size of a hash and limits:
  `BcryptRightHolds`. That a check makes the same digest again needs two facts.
  `ParsedAgain`: the text in front of the last "$" gives the rounds and the salt of the
  digest again, because both are within the limits and a salt without rounds does not
  begin with "rounds=". `Follows`: the pieces made so far are the first of the digest's
  hash and the loops are where they were behind that piece. Where they were is a
  sequence that exists for every hash that was made (`Traced`), so that two runs of the
  loops are compared step by step and no closed form of what they make is needed.

* `CipherProofs`, of the block cipher: `BlowfishInvariance` and `InvertsHolds`, for every
  even number of rounds, every size of a byte, any tables of constants and keys, and any
  exclusive or with the assumptions of `BlowfishAssumption`. `Trace` is the sequence of
  halves the encryption of the present block passes through under the present
  tables, whatever the key schedule has made of them; `Undone` says that a decryption
  after n rounds is at the trace's entry `Rounds - n`, swapped and mixed with the two
  subkeys around it, since `LastSwap` and the reversed subkeys put it there. What
  `f` computes is not looked into: it only has to be a function of its argument.
* `CipherProofs`, of the streams: `StreamInvariance`, and from it `SameTextHolds`,
  `RoundTripHolds` and `PrefixOnlyHolds`, for every size of a block, every buffer that is a
  multiple of it and longer, and messages of any length. `CipherByte(n)` is the n-th
  byte of the ciphertext, by arithmetic on n alone; `CipherFrom(t, n, a)` and
  `PlainFrom(s, n, a)` say that a sequence is the a bytes of ciphertext or message
  behind the n-th, and the lemmas join and cut them. `EncState` says that the
  ciphertext so far is a part of that text and where the encrypting stream is in the
  message, `DecState` the same of the decrypting one; an istream is always at the end
  of a whole number of bufferfuls, with something still to come. Both are conditional on
  `EncryptsRight`, because otherwise the code does not keep them (see the violated
  runs). The arithmetic is in `TopFacts` and `UnpaddingFacts`: the last block of the ciphertext is
  not always the one behind the last whole block of the message (no padding, and
  a message that ends with a block), and the padding of it is what `unpadding()` counts,
  for padding with zeros because a byte of the message is not zero.

Each inductive invariant was checked by TLC, on the bounds of the module's run or
near them, before it was proved. Assumptions of the proofs are the `ASSUME`s of the
modules, evaluated by TLC in every run: sizes are positive, a chain of widgets is a
sequence of at least one, a comparison is a strict weak order, there is a client
(`conn` names one also before the first is accepted), the pattern of a `repeatstream`
is not empty (it throws otherwise), `"own"`, the mark of what a program writes itself,
is no character of a source, the settings of bcrypt are sequences of tokens, the number
of rounds of Blowfish is even (16 in the code; the key schedule fills the subkeys two
at a time), and the exclusive or on words is associative and undoes itself.

Checked by TLC only:

* every liveness property (`WriteAllReturns`, `MessageEnds`, `Served`, `Returns`,
  `EveryoneServed`, `Answered` of `HttpExchange`): fairness is beyond the prover;
* `ImplementsQueue` of `Heap`, and what the pure definitions of the JSON modules,
  `Base64`, `Header` and `Rational` compute: induction over data is beyond it too, and
  the JSON modules declare RECURSIVE operators;
* `PreDigest` of `Bcrypt` (and `SchemeFollowed`, which is violated): it compares the
  pieces the loops make with those the size of the password gives, one for each of its
  binary digits; powers of two are beyond the arithmetic of the prover, and that
  repeated halving gives the digits is induction over data again.

No run lists the type invariants. `TypeOK` of `FdStream`, `ChunkedTransfer` and `Heap`,
`ResourceTypeOK`, `ShaTypeOK`, `ProgTypeOK` and `BlowfishTypeOK` are proved, or part of an inductive invariant that is. `TypeOK` of `SimpleServer`, `HttpExchange`,
`CipherStream` and `JsonGrammar`, which no proof needs, hold on the instances of the
runs.

## Not modelled

The compression function of SHA-2 and the tables of constants of SHA-2 and Blowfish,
for which the published test vectors, which the tests check, are the specification;
of bcrypt, what goes into P, S and each round and the characters a hash is printed
with; the CRC-24 of base64. Of `Rational`, the constructors from signed integers, the
operators with an integer on one side, conversions to floating point, and printing.
Of `string/utils.hpp`, the functions of one line; `lexical_cast.hpp` is modelled where
it is used (a text that is no number reads as zero). `test.hpp` runs a list of
functions in order; `simple_http_client`, `passwd` and `sha2` are straight-line programs
that read their arguments, call the library and print: no state of theirs
outlives a call. `contents_` of a widget is
constant (`add_content()` has no lock and is called before `run()` everywhere in the
repository); the lifetime of the SimpleServer object after `run()` threw is not
modelled; socket setup is left out. Header fields other than the framing stay out of
`HttpExchange` and `SimpleServer`, and so does what a widget sets in the header
before it throws, which stays in the header of the 500 response (`server_stream.hpp:123`). Of
JSON, the conversion of doubles, the refusal of NaN and infinity and the depth of the
indentation are left out (`newline_indent()` is a new line); so is
`Decoder::last_error()`, which an ASCII character does not clear (`utf8.hpp:80`).

## Plan

In order of importance; all three items are done.

1. `FdStream`, `ChunkedTransfer`, `ByteChannel`; `SimpleServer`; `HttpExchange`;
   `UniqueResource`; `Heap`; `CipherStream`; `Utf8` and JSON; the proofs above.
2. `Programs`, `TeeStream`, `Header`, `Base64`, `Rational`, `Blowfish`, `Sha2Stream`,
   `Bcrypt`.
3. Proofs, in modules of their own: done for `SimpleServer`, `FdStream`,
   `ChunkedTransfer`, `HttpExchange`, `Sha2Stream`, `UniqueResource`, `Heap`,
   `Programs`, `Blowfish`, `CipherStream`, `TeeStream` and `Bcrypt`. What is left is
   out of the prover's reach, as the list above says.
