# Verification of the git-r-done web server

TLA+ models of the server in `src/`, the TLC configurations that check them and
the theorems TLAPS proves about them. Paths below are relative to the root of
the repository; "line 722" of a file is a line of `src/<file>`.

## The system

One process serves HTTP on one port. `main` (`server_main.cc`) reads a
configuration file, makes a `server`, and runs the `io_service` on one thread.
Everything else happens in callbacks of that thread.

| Part | State it keeps | Operations | Talks to |
|---|---|---|---|
| acceptor (`server.cc`) | the outstanding accept | `start_accept`, `handle_accept` | makes sessions |
| session (`session.cc`) | socket, read buffer | `start`, `handle_read`, `handle_write` | dispatcher, status list |
| dispatcher (`dispatcher.cc`, `handler_manager.cc`) | two tables, rebuilt for every request | `generateResponse`, `createByName` | configuration lookup, handlers |
| configuration parser (`config_parser.cc` 143-385) | lexer state, stack of open blocks, the tree | `ParseToken`, `Parse`, `ToString` | read once at start |
| configuration lookup (`config_parser.cc` 29-141) | none of its own; fills the two tables and `url_handlers_map_` | `ParseString`, `GetPort`, `GetRoot`, `GetAttribute` | the tree, as printed text |
| status list (`status_obj.cc`) | static vector of (count, path, code) | `addStatusEntry`, `getStatusCalls` | written by sessions, read by the status page |
| meme application (`meme_handler.cc`) | SQLite table `MEME_HISTORY`; the position of `rand()`; descriptors | create, list, search, view, edit, delete, post | the database file, which outlives the process |
| proxy (`proxy_handler.cc`) | none between requests | one synchronous exchange with another server | blocks the only thread |
| static, echo, status, health, error, bad handlers | none | one answer each | files, status list |
| request parser, response, URL text (`request.cc`, `response.cc`, `url_parser.cc`) | none | pure text functions | |
| browser pages (`memes_r_us/`) | in the browser | forms | the meme application |

What is hard here:

- **Interleaving.** Handlers run to completion, but reading, writing, clients
  that close or abort, and the acceptor interleave; users interleave over the
  meme table, with forms that stay open while others delete or post.
- **Ordering of the network.** A header, a body and a proxied response arrive in
  pieces that fall into reads in any way.
- **Failure.** Exceptions leave `io_service.run` and end the process; writes to
  the database fail unnoticed; descriptors leak until nothing opens.
- **Restart.** The table survives; the status list, the scrambles of `rand()` and
  the leaked descriptors do not.
- **Boundaries.** Ids are text and get one digit longer; a request path may be
  just the prefix; a configuration file may end anywhere.

What makes each part correct: a meme keeps its token for its life and only that
token opens it; an answered post is stored; the status page counts what was
answered; every request is answered and only one handler runs at a time; a
response arrives as it was built; the parser accepts the grammar and keeps what
the file says; the proxy serves what the other server sent.

## Modules

| Module | Models | Proofs |
|---|---|---|
| `MemeBoard` | abstract: memes known by their tokens; `Publish`, `Revise`, `Remove` | |
| `MemeVault` | `meme_handler.cc`: the table, tokens, pages, posts, descriptors, restarts; implements `MemeBoard` | `MemeVault_proofs` |
| `StatusObject` | `status_obj.cc` as operators on the list | used by `WebServer_proofs` |
| `WebServer` | `server.cc`, `session.cc`, the thread and the process, clients and upstream servers; uses `StatusObject` | `WebServer_proofs` |
| `ProxyServer` | the composition of `WebServer` and `ProxyFetch`: the exchange in place of the time in state "proxying"; implements `WebServer` | `ProxyServer_proofs` |
| `ConfigParser` | `ParseToken`, `Parse`, `ToString`, character by character | `ConfigParser_proofs` |
| `ProxyFetch` | `ProxyHandler::HTTPRequest`, piece by piece | `ProxyFetch_proofs` |
| `TextOps` | `boost::split`, `boost::replace_all`, `find`, `substr` on texts as sequences of symbols | |
| `RequestText` | `request.cc`: what a request is read as | |
| `Routing` | `config_parser.cc` 19-171, `dispatcher.cc`, `handler_manager.cc`, what the handlers take from their block and answer; uses `RequestText` | `Routing_proofs` |
| `UrlText` | `url_parser.cc` | |
| `MemeForms` | the texts of memes: the forms of `memes_r_us/`, `parseRequestBody`, pages, edits and searches; uses `UrlText` | `MemeForms_proofs` |
| `TextLemmas` | nothing of the program: induction over numbers, sequences put together, `Split`, folds, for four of the proof modules | itself |
| `MC...` | the instances TLC tries: requests, configurations, texts | |
| `...Claims` | what comments, README and tests say and the code does not keep | |

### MemeVault

`rows` is the table, from ids to a text and a token; `tableExists` whether
`CREATE TABLE` has happened; both are on disk and survive `Kill`/`Restart`.
`rnd` counts the calls of `gen_access_token` since the process started: `rand()`
is never seeded, so a token is a function of the id and this count, and it
starts over with the process. `leaked` counts the database connections
`MemeView` forgot; `forms` the edit forms users hold, whose posts carry an id and
no token; `retired` is a history of tokens that have left the table.

A request is one step, because one thread runs it from beginning to end (the
mutex at lines 73-84 is never contended). `PostNew` is the create form or a
body that was cut off; `PostEdit` an edit form; `Delete` and `EditPage` check the
token with `Verify` and fall back to the view page. `DbOpens` and `DbWrites` say
whether a descriptor is left for the database file and for its rollback journal.
A write may fail besides, in the lives of the process that `FaultyLives` names
(`WriteMayFail`). After a failed open `AddToDatabase`
uses a closed handle: either every call is rejected or the process ends.

Texts, names and images are abstracted to the member of `Texts` a user chose;
ids to numbers, compared as the text column compares them (`TextLess`), and to
words, which an edit form may put into the table. How a body is decoded and what
a search finds is in `MemeForms`; the order of lists is left out.

### WebServer

Each connection carries one request, as the code closes after one response.
`state` says where it is: in the backlog, in `async_read_until`, inside the
blocking proxy, in `async_write`, closed, or lost with the process. `sent` is how
much of the request has arrived: a session reads to the end of the header and
takes what has come by then. `left` is how many socket writes the response
still needs after the one that `async_write` tries at once; the rest is read from
a destroyed string, so it may be right, junk, or an error (`WriteMore`).
`delete this` on a session a `shared_ptr` owns destroys it twice: the process may
go on or end (`DestroyTwice`). `Throws` marks the paths on which `substr` throws in
the static and meme handlers; nothing catches it before `main`.

A handler that answers at once is one step with its answer (`ServeLocal`); the
proxy is two, with the thread blocked in between (`ServeProxy`, `ProxyReturn`).
`Free` is the single thread.

### ProxyServer

The variables of both modules. `CallProxy` starts an exchange as `HTTPRequest`
does, with everything empty; while a connection is in state "proxying" only the
exchange moves, beside clients and the other server; `ProxyAnswer` and `ProxyFails`
take its end back to the session. `ImplementsServer` says that this is a server of
`WebServer` with that module's fairness: the fairness `WebServer` assumes of
upstream servers follows here from the handler going on and the other server
sending and closing.

### ConfigParser

The file is any sequence of characters; each step reads one, or the one that
`unget` put back. `lex` and `value` are the state of `ParseToken`, `last`, `stack`
and `depth` of `Parse`, and `configs` the tree, with a statement's block as the
number of a configuration. A tab is left out: the lexer treats it as a space.

### ProxyFetch

The other server's reply is a status line, headers and a number of body pieces;
they arrive one at a time and a read may return more than it asked for. `to` is
how many pieces have been read, `body` what `res_body` holds.

### Routing and RequestText

A configuration is a tree as `ConfigParser` builds it, and `TextOf` prints it as
`ToString` does; everything else looks names up in that text, as the code does,
so a name inside another's value is found there too. `Start` is `main` up to the
server; each request is one step: `Receive` reads it (`ParseRequest`), `Dispatch`
builds the tables, and one of `ServeError`, `ServeUnknownName`,
`ServeWithoutAttribute`, `ServeBare` and `ServeByHandler` answers it. `urlHandlers`
is the one table that outlives a request. What the code leaves undefined (a
`handler` without a block or a name, `GetAttribute` without a result) ends the
process or is answered anyhow (`Undefined`). The properties compare with the tree:
`Says` is what a block says of a name.

### UrlText and MemeForms

A text is a sequence of symbols: the characters that mean something to URLs,
HTML, LIKE or the templates, the two digits of a code, the name of an entity, and
`x` for the rest. `Encoded`, `Body`, `Shown` and `InputValue` are the browser's
part; `ParseRequestBody`, `Row` and `Post` the way into the table; `InPage`,
`EditFill` and `SearchTerm` the way out. `SubmitCut` sends any beginning of a body;
reading past an item without an equals sign ends the process or stops the
parsing (`OutOfRange`). What an edit form shows as a blank may be a no-break space,
the symbol `hard`; `Softened` is what a reader sees of it. Tokens, deletions and
restarts are in `MemeVault`: here
every user of an edit form has the token.

## Runs

| Run | Question | Instance |
|---|---|---|
| `meme_core` | types, tokens name their memes, live tokens never change, retired ones do not come back in one life, answered posts are stored, the board is implemented | 2 ids and a word, 1 text, 2 descriptors, 2 tokens a life, a restart, failing writes in the first life |
| `server_core` | counts, one handler at a time, small responses intact, no hang-up on a waiting client, what can end the process | 3 connections, 5 requests, aborts, upstream failures, a restart; connections are symmetric |
| `server_liveness` | every request is answered; an exchange begins empty; the server with its exchanges is a server of `WebServer` | 2 connections, an echo and a proxied request, a body of up to 1 piece, failing accepts, upstream failures, a restart |
| `config_nesting` | accepted files are the grammar's, the tree prints as the file, the stack is the path to the open block | all files of up to 9 tokens over all 10 characters, words of up to 2, one of them longer than one |
| `proxy_exchange` | nothing lost, only a beginning doubled, the exchange ends | bodies of 0 to 4 pieces, every arrival, early ends and aborts |
| `routing` | the port, the handler, its attributes, the status page, what ends the process, how a request is read | 16 handlers alone and in pairs, 3 beginnings of a file and 5 strange files; 26 requests, 2 in a row |
| `forms` | texts are shown as typed, kept by an edit, found; a cut post edits nothing | 5 fillings of a form with all special symbols, 13 terms, 2 posts, every cut |
| `meme_rollover` | *fails*: a new id is fresh | ids of one and two digits |
| `server_large` | *fails*: a response arrives as built | one response of two writes |
| `server_cut` | *fails*: a handler sees the whole request | one echo or post with a body |
| `server_blocking` | *fails*: a local request is answered although an upstream server is silent | 2 connections |
| `proxy_duplicate` | *fails*: the proxy serves the body | bodies of up to 2 pieces |

The bounds. Two ids and two tokens are enough for a post, a deletion, a post
that takes the same id, and a stale form, and a word among the ids for the paths
where an id is no number; with two descriptors one leaked view makes writes fail
and two make opens fail. Three connections allow two to be answered with the
same path and the same or another code while a third crashes or blocks; counts
only tell entries of equal and of different paths apart. Nine tokens nest three
blocks and return through them, and one long word is as good as many: between
words the lexer keeps nothing (`MaxLong`). A body of four pieces has a beginning, a middle
and an end in every split. The restart of
`server_liveness` lets an exchange that ended with the process be followed by
another; aborting clients, which `server_core` has, would take it to three and a
half minutes and are left out. Two requests show what
the first leaves in `url_handlers_map_`. Two posts are a post and its edit, or a
post beside a meme that is there. Where a theorem exists the bound does not
matter.
`CHECK_DEADLOCK FALSE` is set everywhere because everything may come to rest: a
process that was killed for the last time, clients that have all left, a file
that was read, an exchange that is over.

Fairness. `server_liveness` uses `ProxyServerSpec`: weak fairness of what the event
loop does for each connection, since `io_service` runs ready handlers in the order
they became ready, of the handler, which has the thread, and of the other server,
which goes on sending and closes unless it breaks off; `server_blocking` shows
that the last is needed. Clients are never fair: they may stop half way.
`proxy_exchange` assumes the handler, which owns the thread, goes on, and the
other server either goes on sending and closes, as `Connection: close` asks, or
breaks off.

## What is proved

All theorems hold for every value of the constants, under the named
assumptions of the modules, which say that the constants are of their kinds.

- `MemeVault_proofs`. `TypeCorrect`; `OwnTokenVerifies` (`TokenNamesMeme`), from the
  invariant that a row's token carries the row's id, which is inductive because
  an edit copies the token of the same row and a new row gets one made of its
  id. `TokensStayForGood` and `Implements` need `MaxId <= Rollover`: while ids
  have one width, the last row in text order is the greatest, so the next id is
  no row's; `meme_rollover` shows the assumption is needed. `RetiredTokensStayRetired`
  (`NoRevival`) strengthens the invariant by "every token seen in this life was
  drawn before `rnd`, and no two of them share a draw".
  `AnsweredIsStored` (`StoredUnlessStarved`) needs only the types: the post and its
  answer are one step, every later request replaces the answer, and the other steps
  leave the rows alone.
- `WebServer_proofs`. `TypeCorrect`, `StatusIsRight`, `OneAtATime`, `SmallIntact`,
  `HangUpAfterRequest` and the action property `OnlySomeEnd`, from one invariant
  `IInv`: types, `StatusAccounts`, `ConnectionsOK`, which relates where a connection
  is to whether it was answered and what is left to write, and `ProxyIsProxy`: only
  a proxied request blocks the thread. `StatusIsRight` rests on lemmas about
  `AddStatusEntry`: it keeps entries distinct and adds one to one of them.
  `TotalIsRight` (`TotalIsAnswered`) goes from the entries to their sum: the partial
  sums exist (`SumExists`), and each is the number of connections whose entry is
  among those summed (`SumIsCounted`), both by induction over the list.
- `ProxyFetch_proofs`. `TypeCorrect`, `BeginningTwice` and `WholeBodyArrives`
  (`NothingLost`), from what `res_body` holds at each point of the exchange:
  `Progress` says which pieces it has at most, `Complete` that none before `to` is
  missing.
- `ProxyServer_proofs`. `ImplementsServerSafely`: each step of the composition is a
  step of `WebServer` or leaves its variables alone, which is `ImplementsServer`
  without its fairness. Hence `ServerTheorems`: the invariants and the action
  property of `WebServer_proofs` hold here. `OwnExchange` (`ExchangeIsItsOwn`) takes the
  invariant of `ProxyFetch_proofs` along every exchange: it holds when `CallProxy`
  has emptied the buffers, each step of an exchange keeps it, and no exchange
  outlives its connection's state "proxying".
- `ConfigParser_proofs`. `TypeCorrect` and `StackIsAlwaysPath` (`StackIsPath`). The
  invariant adds that the numbers on the stack increase: a block is made after
  those it is in, so it is on the stack once, and a change of the innermost one
  leaves the links of the others as they are.
  `ConfigIsAlwaysFile` (`ConfigIsFile`): as long as the file is not refused, there are
  marks in it (`Marks`), for each configuration the places where its statements
  begin and, unless the last of them is unfinished, where that one ends. Between two
  marks stand the words of the statement and then a semicolon, or a brace, its
  block and a brace; no block that is still open belongs to an ended statement. So
  a token read is a mark added, and nothing that has ended changes. Once all has
  ended (`Finished`), each configuration is printed as the part of the file between
  its first mark and its last (`BlockIs`), by induction from the last made to the first
  (`MarksPrint`): a child is made after its parent. `FlattenGiven` says what
  `FlattenSeq` returns.
  `AlwaysAcceptsTheGrammar` (`AcceptsTheGrammar`): the recursive function that says
  which texts are of the grammar exists (`TextsAre`), and every text of it is `Good`:
  its tokens fit each other, it begins and ends as a text does, and its braces
  balance (`TextsAreGood`). The invariant `GrammarOK` keeps of the file read what its
  last token allows. A refusal is then a pair of tokens that no good text has
  (`Misfit`) or an end that none has (`Unfinished`); and of an accepted file the marks
  are a derivation, statement by statement (`StatementIsText`), block by block
  (`BlockIsText`, `FileIsText`).
- `Routing_proofs`. Every property of `routing`, for every set of configurations that
  `ConfigAssumption` allows and every set of messages that `MessageAssumption` does.
  The first is what `ConfigParser_proofs` shows of an accepted file: a tree whose
  blocks are numbered after the ones they are in, and no empty statement. The
  second is the shape of what clients send: words free of blanks and ends of lines,
  with anything for a method or a version, and anything for a header or a body.
  - `StatusPageIsRight` (`StatusPageTells`): every entry of `urlHandlers` is one that the
    table built from the configuration has, and that table is the same for each
    request.
  - `RequestsAreRead` (`RequestIsRead`): `Split` goes from state to state (`SplitStep`),
    and the states of a text follow from those of its parts (`RunsJoin`,
    `RunsApart`), so a message is followed word by word: a word goes to the last
    token (`WordRuns`), a run of delimiters starts one token (`BlankRuns`), and a
    token with one behind it stays (`FrozenRuns`).
  - `TypeCorrect`: what `Atoi` reads is a number, whatever the text, and the codes are
    those of the handlers.
  - `PrefixesAreKeys` (`PrefixIsKey`): where a url has no semicolon behind it,
    `PeekURL` takes the rest of the block and `GetAttribute` nothing; but a printed block
    ends in the end of a line (`TextCloses`), which no path that was read has
    (`UriIs`), so what a path is served by was found with both (`UrlFound`). This holds
    of every configuration, plain or not.
  - `PortIsTheFirstListen` (`PortIsListen`): in the text of a plain configuration the
    first place of a name is in the first setting of it, followed by a blank, the
    value and a semicolon (`Tells`), and without a setting there is none (`Lacks`);
    `BlockTells` shows it of a block at every depth, given those in it, and `FileTells`
    goes from the last block to the first (`BackwardInduction`). `PortOK` keeps
    the port that `Start` found.
  - `BlocksServe` (`ServedByItsBlock`): the same of a handler's block (`LeafTells`,
    `BlockIsRead`), and the first handler in the table with a prefix is the first of
    the file that says so (`FirstSays`). `ServedOK` keeps of an answer where it came
    from.
  - `OnlyBarePrefixesKill` (`OnlyBarePrefixKills`): `DeadOK` keeps what the process ended
    for; a plain and complete configuration leaves a path that is no longer than
    its prefix (`PrefixAll`), and the proxy.
- `MemeForms_proofs`. Every property of `forms`, for every set of fillings, terms and
  ids that the assumptions of `MemeForms` allow. `FillShape` lets users type any
  symbols into the three texts; an image is one of the file names that the pages
  list, which have nothing in them that URLs encode and no directory.
  `IdShape`: ids are such words too, and none begins another, which holds while
  they have one width; what happens when they get longer is `meme_rollover`.
  The invariant `IInv` adds to `TypeOK` and `ShownAsTyped` what makes them inductive:
  `MemesOK`, each id is one of `IdTexts` or a beginning of one, and each row is
  either from a whole body, encoded texts under an image with its directory, or from
  a cut one, with an image that has none (`RowIs`); `IdsInOrder`, the ids given out are
  the first ones, so the next is free (`NextIdIs`); `FormOK`, an open form is one a
  user can have, and an untouched edit form shows the row as it is; `LastOK`, a
  search found what it finds now.
  - From text to text: `ReplacedAll`, `UrlDecode` and `Shown` are scans, and what a scan
    makes of a text is what it makes of the first piece and then of the rest
    (`ScanNext`). So each has an equation for a text with one symbol more
    (`ReplacedSkip`, `DecodeCode`, `ShownEntity`), and by induction over texts
    (`TextInduction`) decoding takes encoding back: `EncodedDecodes` and `PlainEncoded` for
    URLs, `HtmlDecodeEnc` for HTML, one entity after the other (`EncLess`),
    `ShownEncoded` for the page, `InputKeeps` for an input.
  - From form to row: a body is a text of items (`BodyIs`), any beginning of such a text
    is split into some whole items and a last one that may be cut
    (`SplittingNext`), and each item into key and value (`PairsSplit`). `WholePost` is what
    is stored of a whole body; `CutPost` that a cut one has no id or a beginning of
    one, whatever `OutOfRange` does.
  - `MemesShowWhatWasTyped` (`ShownAsTyped`): a whole post stores what was typed, encoded
    (`Submitted`), and the page shows that (`WholeShown`).
  - `CutPostsNeverEdit` (`CutNeverEdits`): the id a cut body is stored under is no whole
    id but the next, which is free (`PartOfId`, `StoredCut`).
  - `UntouchedEditsKeepTexts` (`EditKeepsText`): what `EditFill` takes from a row is what
    the post makes that row of again (`EditSame`).
  - `ShownTermsAreFound` (`SearchFinds`): encoding goes through a text symbol by symbol,
    so the encoded term is a part of the encoded text (`EncodeGlue`), and a pattern
    between two percent signs finds every part (`LikeInside`); a percent sign in the
    term only finds more.

The library's induction theorems take an operator as a parameter, which the
provers cannot instantiate. `TextLemmas` states induction for sets of numbers
(`NumberInduction`), from the theorem that "<" is well-founded, and from it induction
and recursion from the last number to the first (`BackwardInduction`,
`BackwardRecursion`), which go through a tree whose blocks are numbered and through
a text that is read from its first symbol. What a
recursive function of the model computes is shown by proving that the function
exists and then what every function with its equation returns (`PrintIs`, `OrderIs`,
`NumberExists`, `SplitExists`, `ScanExists`, `RestsExist`).

Every invariant and action property of the passing runs is a theorem. Only
model-checked is liveness, which is beyond the prover: `EveryRequestAnswered`,
`FetchEnds`, and the fairness in `ImplementsServer`.

## Where the code departs from what it says

Five runs are expected to fail, each on one property that states a comment, the
README or a test; `PROJECT.json` quotes them.

Further departures have a configuration of their own, to be run by hand:

| Configuration (module) | What fails | Where |
|---|---|---|
| `MemeVault_ghost_row.cfg` (`MemeVaultClaims`) | a form posted after its meme was deleted brings it back with a token that opens nothing | `src/meme_handler.cc` 739 |
| `MemeVault_word_row.cfg` | a row whose id is a word is answered as deleted and stays | 221 |
| `MemeVault_blank_post.cfg` | a post without parameters makes a blank meme | 277 |
| `MemeVault_fd_leak.cfg` | views of missing memes use up the descriptors until posts fail | 383 |
| `MemeVault_lost_insert.cfg` | a post is answered with 200 although its write failed | 772 |
| `MemeVault_empty_view.cfg` | before the first post every view is a 200 | 370 |
| `WebServer_reset.cfg` (`MCWebServer`) | a client that aborts during its response can end the process | `src/session.cc` 119 |
| `WebServer_bare.cfg` (`MCWebServer`) | the bare prefix of a static handler ends the process | `src/static_handler.cc` 30 |
| `MemeForms_search.cfg` (`MemeFormsClaims`) | a search for "amp" finds a meme with an ampersand, one for "%" finds all | `src/meme_handler.cc` 880 |
| `ConfigParser_unfinished.cfg` (`ConfigParserClaims`) | a file that ends in a word after a whole statement is accepted | `src/config_parser.cc` 269 |

Not in the table because nothing in the repository says otherwise, and therefore
only excluded by `Tame` and `Returned` in the properties of `MemeForms`: a typed
plus becomes a blank and a typed "%2F" a slash; a typed quote ends the input of
the edit form; a typed entity is decoded there; a typed placeholder of a template
is replaced; a typed "&nbsp" becomes a no-break space there, is stored as one, and a
search for a blank does not find it. `Plain` in `Routing` likewise leaves out configurations in which a name
stands inside a value, or a semicolon in quotes does. `listen 65536` is a port of 0 (`AsPort`); `PortIsListen` is about
ports that fit.

## Not modelled

The markup and the wording of pages and responses, `response.cc`, content types,
logging, the rewriting of links by the proxy (`HTMLFilter`), the build: text or
input and output without a state. `GetRoot` searches like `GetPort`, and no handler
reads `root_`. `handle_stop` is only called by its test. Letters' case and the
underscore in LIKE, and `&apos;` and `&gt;`, are treated like what is modelled.
Boost.Asio, SQLite and the browser are modelled by how the code uses them:
`read_until` may return more than asked, `async_write` tries one write at once, a
handler that throws ends `run`, a TEXT column compares by characters, a write
needs a journal, a form is sent in the order of its fields.
