# A verification project for tolla

tolla keeps a mongo database per user ("tenant") in a docker container, puts a
TLS proxy in front of it, and lets a client process in only if the intent in
the client's certificate is among the purposes the user has consented to. This
directory holds TLA+ models of that system, TLC configurations that check them
on small instances, and TLAPS proofs for every instance. The repository also
keeps its own fork of rust-openssl, the binding through which tolla makes
certificates and speaks TLS; the parts of it that have a behaviour of their own
are modelled too.

## Inventory

| component | source | state | operations | hard parts |
|---|---|---|---|---|
| certificate authority | `tolla/src/ca.rs` | key pair and root certificate, in memory only | `new`, `create_db_certificate`, `sign_certificate` | random `u32` serial numbers that are stored as `i32`; a new key pair at each start; `unwrap` on requests |
| store manager | `tolla/src/docker.rs` | containers in docker, files under `/tmp/certificates/<user>` | `verify_container_id`, `new_mountdir`, `new_container`, `remove_container`, `start_containers` | each is several external calls; files are truncated, then written |
| consent engine | `tolla/src/consent.rs` | mongo collections `consents`, `view`, `views`, `intents` | `onboard_user`, `deboard_user`, `add_consent`, `add_intent`, `handle_cert_request`, `consent_by_serial_num`, `consent_based_view`, `get_tenant_ips` | methods of up to ten external calls without rollback; errors and crashes between any two |
| server process | `src/main.rs`, `tolla/src/endpoints.rs`, `tolla/src/register.rs` | `Arc<Mutex<ConsentEngine>>`, HTTP threads, eight protobuf workers | four HTTP routes, five protobuf messages | a panic poisons the mutex for everybody; workers that panic are gone; restart |
| tenant proxy, accept loop | `mongodb/docker-alpine-mongo/proxy/main.go` | certificate, client root, `leases` | `handleIncoming`, `VerifyPeerCertificate`, `assertPermissions` | deletion inside `range`; stale permissions; handshakes one at a time |
| tenant proxy, relay | same file | two connections, `Pipe.status` | `handleConnection`, `Pipe.done` | half-closed connections |
| request proxy | `tolla/src/proxy.rs` | TCP pairs | `start` | never constructed; its `DBrouter` has no implementation |
| protobuf codec | `tolla_proto/src/lib.rs` | a byte buffer | `decode`, `encode` | no framing |
| client | `client/src/main.rs` | certificate, root and key files | `retrieve_certificate`, `setup_mongod`, ... | files written one by one, without truncation |

rust-openssl, under `rust-openssl/openssl/src` unless said otherwise:

| component | source | state | operations | hard parts |
|---|---|---|---|---|
| streams | `ssl/mod.rs`, `ssl/bio.rs` | error and panic kept in the BIO, the thread's error queue | handshake, `ssl_read`, `ssl_write`, `shutdown`, `make_error` | what OpenSSL reports and what the BIO has kept may be of different calls; panics under C frames |
| ownership of OpenSSL objects | `lib.rs` (`foreign_type!`), `pkey.rs`, `rsa.rs`, `ec.rs`, `x509/`, `stack.rs`, `pkcs12.rs`, `ocsp.rs`, `ssl/mod.rs` | reference counts, handles, borrows | every function that makes, takes, gives or lends an object | C takes an argument over only if a call succeeds; several calls in a row of which one fails |
| callbacks | `ssl/callbacks.rs`, setters in `ssl/mod.rs` | boxes in the extra data of contexts and of an Ssl | the setters, `set_ssl_context`, the trampolines | closures that replace themselves; contexts switched in a callback |
| protocol lists | `ssl/mod.rs`, `ssl/callbacks.rs` | an encoded list | `set_alpn_protocols`, `set_npn_protocols`, `select_proto_using` | lengths cut to a byte; whose order counts |
| connector | `ssl/connector.rs` | the host name of a session | `connect`, `verify_callback` and the matching | wildcards; one callback for all sessions |
| certificate extensions | `x509/mod.rs`, `x509/extension.rs` | a vector and a map of indexes; six builders | `add_extension`, `sign`, setters, `build` | replaced extensions; texts read back by OpenSSL |
| OCSP | `ocsp.rs` | requests and responses | constructors, `find_status`, `check_validity` | ownership of what C returns; -1 for "no limit" |
| hashing and signing | `hash.rs`, `sign.rs` | the state of a digest context | `update`, `finish`, `clone` | lazy resets; failures; a signature shorter than announced |
| symmetric ciphers | `symm.rs` | a partial block, a block held back | `pad`, `update`, `finalize`, `encrypt`, `decrypt` | output lengths |
| locks of OpenSSL 1.0 | `openssl-sys/src/ossl10x.rs` | mutexes and guards in statics | `init`, `locking_function` | threads in `init`; guards between two calls |

How they interact: a client asks a protobuf worker for an identity certificate
(`handle_cert_request`: sign, record the intent, answer). An operator onboards a
user over HTTP or by message (`onboard_user`: certificate files, container, view,
consent). docker starts the container and in it the proxy, which loads the files.
A client connects to the proxy; the proxy looks for a lease, else asks the HTTP
endpoint `/lease/` with its own serial number and the client's intent; the server
finds the consent by serial number. Deboarding removes the container, the consent
and the view. Everything inside the server runs under one mutex; everything else
(docker, the database, the proxies, the clock) moves between its calls.

What makes each part correct:

* engine: whatever fails, a consent never exists without its user's view and is
  never erased before its container and proxy are gone; an answer of success is
  true; a lease is granted only on the asking user's own consent; a certificate
  that reached a client has its intent on record;
* server: the mutex is always released; nothing is written after a panic inside
  the engine;
* proxy: one lease per certificate; the deletion loop stays inside the slice; a
  withdrawn consent stops admitting peers within a known time;
* relays: each direction is a prefix of what was sent, an end of stream is passed
  on once everything before it was, a pair of connections is released;
* client: its three files belong together when it uses them; an answer is taken
  for a request whole or not at all;
* rust-openssl: an error belongs to the call that returns it; no object is used
  after it is freed or freed twice, and none is lost where it need not be; the closure that runs is
  alive and the one that was configured; a connection is made exactly to a host
  that the certificate names; what a builder was asked for is in the certificate;
  a digest is of what was written; C stays inside the slice it was given; a count
  shared by threads is atomic.

## Modules

| module | models |
|---|---|
| `Authority` | `ca.rs`: which key pair (`ca`), the serial numbers issued; the cast `AsI32` with its width (`HalfRange` is 2^31) |
| `StoreManager` (extends `Authority`) | `docker.rs`: `container`, `pems` (which issued certificate each file holds), `proxies` (what the proxy of a running container loaded) |
| `ConsentEngine` (extends `StoreManager`) | `consent.rs`: the collections and, per thread, the next external call `pc[t]`; one action per external call |
| `TollaServer` (extends `ConsentEngine`) | `main.rs`, `endpoints.rs`, `register.rs`: threads, mutex, poisoning, worker deaths, `Crash`, `Restart`, `Docker`; `Spec`, `LiveSpec`, the properties |
| `UserLifecycle` | abstract specification: the order in which a user's container, view and consent are taken and given back |
| `TenantProxy` | `main.go`: accept loop and lease table |
| `Relay` | abstract specification of a relay of two byte streams |
| `RelayPeers` | its two peers and their sockets, external |
| `PipeRelay`, `RequestRelay` (extend `RelayPeers`) | the relays of `proxy/main.go` and `tolla/src/proxy.rs`, shown to implement `Relay` |
| `Codec` | `tolla_proto/src/lib.rs`: encoding, and decoding from a buffer without framing |
| `Client` (extends `Codec`) | `client/src/main.rs`, its connections, its files, crashes; the server as it sees it |
| `StreamBio`, `SslStream` (extends it) | `ssl/bio.rs` and `SslStream` |
| `ForeignType` | ownership: heap, handles, borrows; a function is a row of C calls and what Rust does around each |
| `KeyTypes`, `X509Types`, `SslTypes` (extend `ForeignType`) | the rows, one for each group of functions with the same calls |
| `SslCallbacks` | closures, boxes and trampolines |
| `ProtocolLists` | ALPN and NPN lists |
| `VerifyHostname` | host name verification of the connector |
| `CertExtensions`, `ExtensionBuilders` | the generator's extensions, and the builders |
| `Digest` | abstract specification: a digest of what was written since the last one, or of all |
| `Hasher`, `Signer` | `hash.rs` and `sign.rs`, shown to implement `Digest` |
| `Crypter` | lengths and buffers of `symm.rs` |
| `SharedHandle` | abstract specification of an object that threads share and free once |
| `CryptoLocks` | `ossl10x.rs`, shown to implement it |
| `MCTollaServer` | `TollaServer`, for the runs about one user's comings and goings |
| `MCPermissions` (extends `TenantProxy`; two instances of `TollaServer`) | who may do what: the proxy's leases, the server's answers to lease requests, intents in certificates, one part at a time |
| `MCConnections` (extends `PipeRelay` and `Client`; instances of `RequestRelay` and `TollaServer`) | what must come to an end, one part at a time |
| `MCOwnership` (extends `KeyTypes`, `X509Types`, `SslTypes`) | the groups of functions |
| `MCOpenssl` (extends the modules that theorems are about; instances of `CertExtensions` and `ExtensionBuilders`) | rust-openssl, one part at a time, with the values of its parts |
| `TollaServerProofs`, `IdentityProofs` (extends it) | theorems about `TollaServer`: its inductive invariant; whose files and serial numbers are whose |
| `TenantProxyProofs`, `PipeRelayProofs`, `RequestRelayProofs`, `ClientProofs` | theorems about the module each is named after, `ClientProofs` also about `Codec` |
| `SslProofs` | theorems about `SslStream`, `SslCallbacks`, `VerifyHostname`, `ProtocolLists` |
| `CryptoProofs` | theorems about `CryptoLocks`, `Crypter`, `Hasher`, `Signer`, `CertExtensions` |

Operators whose comment begins with *Mutant of* are plausible wrong versions of
the definition that follows. They are not part of any specification; each shows
that a property would notice the mistake.

### How the server model corresponds to the code

A request is a record; `Arrive` hands it to an idle thread, `Lock` is
`lock().unwrap()`, then the actions of `ConsentEngine` run one external call
each until `Finish` sets the answer; `Return` drops the guard, `Answer` delivers.
`onboard_user` is Verify, Certify, Mount (three times, in the order of a
`HashMap`), Create, Start, Inspect, RegisterView, AddConsent; `deboard_user` is
RemoveContainerStep, RemoveConsent, RemoveView; a lease is Lookup; a certificate
request is Sign, AddIntent. `unwrap()` on a failure leads to `pc[t] = "panic"`,
and `Unwind` drops and poisons the mutex; an HTTP thread is replaced, a protobuf
worker is dead, and the worker on the main thread takes the process with it.

External systems are modelled from how the code uses them. With a system in
`Faults`, each call of it can report an error whether or not it took effect. An
insert whose `_id` is taken changes nothing and is reported as an error, or as a
success with a write exception inside (which the engine does not read). docker
keeps containers and files across restarts, lists only running containers, and
can stop and start containers on its own. docker lists a name with a leading
`/`, so `Names.contains(id)` need not find it: `BareNames` says which, and the
proofs cover both. `DistinctSerials` states the assumption that random serial
numbers do not repeat and are not 0, the number that a consent without a
certificate carries; only `LeaseIsOwnConsent` needs it.

Data is abstracted to what the properties tell apart: certificates are which one
was issued, with serial number and authority; ip addresses, PEM contents, logs
and error texts are left out. A certificate request is complete, lacks an entry,
or is unreadable. Requests that are refused before the engine is called (bad
JSON, missing query parameters, an empty message) change nothing and are left out.

### How the proxy model corresponds to the code

`arr` is the array the running `range` loop walks and `len` is `len(p.leases)`.
`append(p.leases[:i], p.leases[i+1:]...)` moves elements down inside `arr` and
shortens `len`, so the loop skips an element and sees the last one twice; an
iteration whose index lies beyond the shortened slice panics. The accept loop
runs each handshake to its end, so `VerifyPeerCertificate` never runs twice at
once, but `Tick` and `ConsentChanges` happen between its steps. Times are ages in
ticks; `LeaseTime` ticks are the 10 seconds of `Expired`, ages are capped where
nothing depends on them any more. `MaxLatency` is an assumption: the HTTP client
has no timeout, so the code bounds nothing by itself. For the same reason no fairness is
assumed of the proxy: a silent peer, or a tolla that does not answer, keeps the accept
loop waiting, and the model lets it.

### How the other models correspond to the code

*Relays.* A stream is a number of bytes, so what has arrived is a prefix by its
length. `PipeRelay` starts after the handshake whatever its result was, as
`handleIncoming` does; a `tls.Conn` whose handshake failed returns that error from
every call, which is what `OnlyAdmitted` rests on. The two goroutines count
themselves out with +1 and -1 in `Pipe.status`. `RequestRelay` follows one
connection of the event loop; the router's `unwrap` ends the loop for all.

*Codec and client.* A message is a sequence of units that know their field; prost
accepts a buffer that ends between two fields. Bytes arrive in pieces, so `Decodable`
is asked after each. The files are overwritten in place; a crash or a panic can come
between any two steps, and the server can be restarted, with a new root.

*Streams.* A call of OpenSSL is a sequence of BIO calls with an outcome each. The
model shows, besides what the runs say: a panic while an alert is sent leaves the
thread's error queue as it is; a flush that would block during a handshake is
reported as `Failure`; an actual `ConnectionAborted` of the stream is reported as the
end of the stream.

*Ownership.* `Fn(names, params, steps)` lists parameters (`Own`, `Ref`, `Mut`) and C
calls (`New`, `Get`, `Put`, ...). A step says what C does with the reference (`take`,
`share`, `read`) and, separately, what Rust does (`forget`, `keep`, wrap as owned or
borrowed), and may fail unless it is `Sure`. Numbers that one C call takes over
together are one parameter; a stack that C makes has one element or none; a builder is
a kind of its own. Where C does not do what the Rust code around it takes for granted, or
Rust gives a reference up too early, one gets lost; a row says so with `Leaky`, and
`NoLeak` says that nothing else is lost. The marked calls are `append_extension` and the
generator's extensions (`X509_add_ext` copies what Rust forgets), `add_cert`
(`X509_STORE_add_cert` takes a reference of its own), boxes in extra data that are
replaced or could not be stored, protocol lists whose store fails, and the buffer of
`set_ocsp_status` when the call fails. Not shown: OpenSSL 1.0 does not free the `Dh` a
`tmp_dh` callback returns.

*Callbacks.* Boxes are numbers; two closure types share each slot, because the index
depends on the type. `set_ssl_context` may be called at any time and inside any closure
that is given the Ssl as `&mut`. The results of `SSL_CTX_set_ex_data` that the setters do
not look at are modelled: with `StoreFails` the box may be lost while the trampoline is
registered (`Lost` is then what was configured). `running.left` remembers that the running
closure made an Ssl leave a context that was not the one it was made from: OpenSSL keeps
the first context for as long as the Ssl lives, but none after it, so that the box of a
closure of a later context can be freed by the switch.

*Host names.* The build for OpenSSL 1.0.1, where the crate does the matching itself
(later versions leave it to OpenSSL). Names are sequences of characters of a small
alphabet; the reference definition `Covers` says with quantifiers what the matching
computes by searching. A program that replaces the verification by `ssl_mut` is left
out.

*Certificates.* `CertExtensions` keeps the generator's vector and map; `asked` is the history
of the caller's adds. `ExtensionBuilders`
writes its text as words and commas and has it read back as OpenSSL would: `critical,`
off the front, the rest split at commas. A name with a comma becomes two elements;
`BuiltAsAsked` is stated for names without. `emailProtection` has a field and no setter.

*Digests, ciphers.* Data is a sequence of chunks, or for ciphers a length. A call of OpenSSL
may fail wherever the code looks at its result; an `update` of a `Crypter` that fails may
have written any part of its output. `pad` may be called between any two calls, as its
`&mut self` allows. A decryption with padding holds its last whole block back; if padding
is turned off, an incomplete block given, and padding turned on again, a block is held
while another is unfinished, and the output of the next `update` exceeds what its
assertion asks for. `NoOverrun` excludes exactly that (`switches`), and nothing else.

*Locks.* `mutex` is who holds it and `slot` whose guard is stored; locking and storing,
and taking and releasing, are two steps each, because the slot is a plain static.
Before the callback is installed a lock does nothing. `owned` is the refinement mapping
of the abstract handles: a clone or a drop takes effect when its count is written.

## Runs

| run | instance | checks |
|---|---|---|
| `lifecycle` | `MCTollaServer`: 1 user, an HTTP thread and a worker, docker, mongo, disk and OpenSSL faults, 2 certificates, 2 starts (2.8 M states) | `TypeOK`, `ConsentHasView`, `EraseAfterRemoval`, `SuccessIsComplete`, `CreatedOverIdentity`, `PoisonStopsWrites`, `Lifecycle` (refinement) |
| `permissions` | `MCPermissions`, see below (2.0 M) | `TypeOK` (of the proxy), `OneLeasePerCert`, `NoSlicePanic`, `RevocationBounded`, `LeaseIsOwnConsent`, `IssuedIntentRecorded` |
| `connections` | `MCConnections`, see below (0.2 M) | `OnlyAdmitted`, `ImplementsRelay` (refinement, both relays), `PairReleased`, `HalfCloseForwarded`, `FilesBelongTogether`, `RequestExact`, `RunEnds`, `MutexReleased` |
| `ownership` | `MCOwnership`: six groups of functions, 3 or 4 objects, 2 references to each (0.3 M) | `NoUseAfterFree`, `NoLeak`, `MutIsUnique` |
| `openssl` | `MCOpenssl`: the other parts of rust-openssl, see below (0.6 M) | `WantIsFresh`, `QueueDrained`, `RunningIsAlive`, `ConfiguredRuns`, `SelectedIsCommon`, `ConnectedIffNamed`, `ExtensionsAsAsked`, `HashesWhatWasWritten` (refinement of `Digest`), `SignatureRoundTrip` (the same of a signer, and its verifier), `NoOverrun`, `GuardIsOwn`, `CountIsAtomic` (refinement) |
| `serial_cast` | 1 user, no faults | **violated**: `SerialCrossReference` |
| `existing_user` | 1 user, no faults, `BareNames` | **violated**: `ExistingUserUntouched` |
| `startup` | 1 user, a restart | **violated**: `StartsRegisteredContainers` |
| `lookup_race` | 1 user, a lease request and a deboarding | **violated**: `LookupFindsConsent` |
| `own_order` | `MCOpenssl`, protocol lists | **violated**: `OwnOrderDecides` |
| `one_extension` | `MCOpenssl`, certificate extensions | **violated**: `OneOfEachExtension` |
| `closure_lookup` | `MCOpenssl`, callbacks, contexts switched in servername closures only, no store that fails | **violated**: `ClosureFound` |

Parts that share no state are checked in one run without forming their product: in
`MCPermissions`, `MCConnections` and `MCOpenssl` a variable `part` says which of them a
behaviour follows, and the others stay as they start. In `MCOwnership` the variable
`group` says which functions a program uses. A property of a module that is extended is
the module's own definition; one of an instance is stated again, under the same name, for
the parts it is about. The instances of `permissions`, `connections` and `openssl`:

| run | part | module | instance |
|---|---|---|---|
| `permissions` | `proxy` | `TenantProxy` | 3 peers in good order (interchangeable: the one symmetry that is used), one of another root, one with a malformed intent; leases of 2 ticks, latency 1 |
| | `leases` | `TollaServer` | 2 users, 2 HTTP threads, 4 serial numbers, two of them negative as `i32`, nothing fails |
| | `certificates` | `TollaServer` | an HTTP thread, a worker and the main worker, 2 uuids, 2 intents, 2 starts, mongo and OpenSSL fail |
| `connections` | `pipe`, `request` | `PipeRelay`, `RequestRelay` | 3 bytes each way, with and without an admitted client |
| | `client` | `Client` | 3 runs, 2 starts of the server, files of 2 sizes |
| | `server` | `TollaServer` | 1 user, 2 HTTP threads, docker, the disk and OpenSSL fail |
| `openssl` | `stream` | `SslStream` | a non-blocking stream, any number of calls |
| | `callbacks` | `SslCallbacks` | 2 contexts, 4 slots, 2 closure types, 2 boxes, stores that fail |
| | `names`, `sessions` | `VerifyHostname` | all names of a small grammar and one session; few names and two sessions |
| | `protocols` | `ProtocolLists` | 7 names, up to 3 in a list, bytes 0 to 3 |
| | `certs` | `CertExtensions` | 4 types of 3 objects, 2 values, 2 name entries, 4 additions |
| | `builders` | `ExtensionBuilders` | 6 builders, 3 names, 3 setter calls |
| | `hashers`, `signers` | `Hasher`, `Signer` | 2 hashers; a signer and a verifier; 2 chunks |
| | `ciphers` | `Crypter` | blocks of 1 to 3, padding changed at any time, up to 5 bytes in a call, slices of up to 8 |
| | `locks` | `CryptoLocks` | 3 threads, 3 handles |

Why these bounds are enough. Users only meet through serial numbers and the
mutex, so the lifecycle, where every failure is possible, needs one user, and
leases need two. Two issued certificates let a user be onboarded again over the
remains of a failed attempt; two starts put a crash and a restart between any two
calls. Two serial numbers per half of the range give both signs, zero and a
collision after a wrong cast. Three leases are the smallest table in which the
deletion loop skips an element and sees another twice. The safety results about
the server, the proxy, the relays, the client and rust-openssl do not rest on the bounds,
because they are proved, except for ownership and the builders of extensions.

Three bytes each way put bytes on either side of every end and failure of a relay, and
chunks of more than one. Three runs and two starts give the client files of earlier runs
and of another root, and two sizes a longer file under a shorter one. An ownership
mistake needs one object with a part, a handle to each and one more reference, so three
or four objects are enough; the groups of rows keep functions together that exchange
objects. A third thread meets two others in `init` and in a lock. Prefix and suffix of one character
each overlap in a label of one. Bytes of 0 to 3 make a length that fits, the largest
that does, and two that do not. Two boxes are one that is replaced and its replacement, or
those of two contexts; two contexts, which can be made again, give switches there and back. A
block of 3 is the smallest with an incomplete one that is neither empty nor a byte from full,
and 5 bytes fill one and leave such a rest. Three setter calls give no, one and two separators after
any first element.

Deadlock is not checked for the server, nor in `permissions`, of which it is a part: nothing
restarts a process that has exited (`docker-compose.yml` has no restart policy), and workers
that panicked stay dead. It is checked for ownership, where a program can always drop or make
something. Relays, the client's runs, verifications and protocol selections end, so
`connections` and `openssl` do not check it.

The violated properties state what the code's comments and assertions say:

* `serial_cast`: half of all serial numbers become negative in
  `serial_number as i32` (`consent.rs:450`), are then searched for as `u32`, and
  `c.unwrap()` panics inside the mutex at the user's first lease request;
* `existing_user`: `consent_based_view` and `get_views` read `views`,
  `register_view` writes `view`; onboarding a user whose container is stopped
  replaces the certificate files before it fails;
* `startup`: `start_containers` only logs;
* `lookup_race`: a lease request queued behind the deboarding of its user finds
  no document; its panic poisons the mutex;
* `own_order`: the peer's list is the first argument of `SSL_select_next_proto`, so its order
  counts, and not the order of the protocols that were configured (`ssl/mod.rs:693`);
* `one_extension`: an extension given by number (`OtherNid`) and by name (`OtherStr`) is two
  types, and the certificate has it twice (`x509/mod.rs:968`);
* `closure_lookup`: a servername closure switches contexts, as `ssl/mod.rs:386` tells it to.
  OpenSSL goes on calling the trampolines of the first context, and these look for their
  closures in the new one: `raw_sni` when the name arrives again, `raw_verify` and `raw_psk`
  already in the same handshake. They find none and use the null pointer.

Other comments that the models contradict. Each definition named is in its module, and TLC
finds it violated in the instances above; no run of the project keeps it:

* `AnswerHasMessage` (`Client`): an answer whose first piece ends after its first field is
  taken for an answer without a message;
* `UnexpectedEofIsNoError` (`SslStream`): `ssl_read` says "Don't treat unexpected EOFs as
  errors when reading", and an error of an earlier call that is still in the BIO takes the
  place of the EOF;
* `NeverInterrupted` (`SslStream`, with `Blocking`): `HandshakeError::Interrupted` "will never
  be returned for blocking streams", and `NotConnected` is retried like `WouldBlock`;
* `NoSpentDigest` (`Hasher`, with `FinalFails`): an error of `EVP_DigestFinal_ex` returns
  before the state is reset, and the next `update` works on a spent context.

Outside the properties, and known from the modelling: a panic of the stream behind a call
that succeeds stays pending until a later call fails, and is lost with the stream if none
does. `find_status` builds the reason of a revocation from the variable of the status
(`ocsp.rs:192`). `check_validity` passes limits as `c_long` with -1 for none, so that where
`c_long` has 32 bits a limit of 2^31 seconds or more is no limit.

### Fairness

`TollaServer!LiveSpec` has weak fairness on what a thread does while it is inside
the engine: the operating system runs threads, and every docker, mongo and
openssl call is assumed to return (the drivers set no timeouts, so this is an
assumption about the environment). Nothing is assumed about requests arriving,
about who gets the mutex next, or about restarts. `TenantProxy` assumes none, see above. The relays' specifications have
weak fairness on goroutines and futures, which their runtimes schedule, and none on the
peers: `PairReleased` and `HalfCloseForwarded` speak of peers that have finished. The
client's has weak fairness on the program and on the network with the server, which
answers or closes; `RunEnds` rests on it, because the client sets no timeout. In `MCConnections`
each part has its own fairness while it is the one that runs. The models of rust-openssl
are about safety and assume no fairness.

## Proofs

The theorems hold for all values of the constants: any sets of users, threads and
peers, any width of serial numbers, any combination of faults, streams, files and runs of
any length and number. They assume the named `ASSUME`s of the modules (`HalfRange`
positive, the free mutex is not a thread, a file has at least one unit, ...) and that uuids
are fresh. The inductive invariants of the server, the proxy, the relays, the client, the
streams and the locks were checked with TLC on the instances of the runs before they were
proved. The hypotheses in the table hold in the run that checks the property; the arguments below say
what happens without them.

| module | theorem | statement |
|---|---|---|
| `TollaServerProofs` | `TypeCorrect` | `Spec => []TypeOK` |
| | `ConsentAlwaysHasView` | `Spec => []ConsentHasView` |
| | `IntentsRecorded` | `Spec => []IssuedIntentRecorded` |
| | `PoisonStops` | `Spec => PoisonStopsWrites` |
| | `ErasedAfterRemoval` | `Spec => EraseAfterRemoval` |
| | `SuccessComplete` | `Spec => SuccessIsComplete` |
| | `ImplementsLifecycle` | `Spec => Lifecycle`: the refinement of `UserLifecycle` under `Held` |
| `IdentityProofs` | `CreatedOverOneIdentity` | `Spec => CreatedOverIdentity` |
| | `SerialHasOneUser` | `Spec => []SerialInv`, under `DistinctSerials` |
| | `LeaseOnOwnConsent` | `Spec => LeaseIsOwnConsent`, under `DistinctSerials` |
| `TenantProxyProofs` | `ProxyTypeCorrect` | `Spec => []TypeOK` |
| | `LeasesUnique` | `Spec => []OneLeasePerCert` |
| | `SliceInRange` | `Spec => []NoSlicePanic` |
| | `RevocationIsBounded` | `Spec => RevocationBounded` |
| `PipeRelayProofs` | `OnlyAdmittedPass` | `PipeSpec => []OnlyAdmitted` |
| | `PipeIsRelay` | `PipeSpec => PipeImplementsRelay`: the refinement of `Relay` |
| `RequestRelayProofs` | `RequestIsRelay` | `RequestSpec => RequestImplementsRelay`: the refinement of `Relay` |
| `ClientProofs` | `FilesTogether` | `ClientSpec => []FilesBelongTogether` |
| | `RequestsExact` | `ClientSpec => []RequestExact` |
| `SslProofs` | `WantAlwaysFresh` | `StreamSpec => []WantIsFresh` |
| | `QueueAlwaysDrained` | `StreamSpec => []QueueDrained` |
| | `CallbackRunsConfigured` | `CallbacksSpec => ConfiguredRuns` |
| | `CallbackRunningIsAlive` | `CallbacksSpec => []RunningIsAlive` |
| | `HostConnectedIffNamed` | `HostSpec => []ConnectedIffNamed` |
| | `ProtocolSelectedIsCommon` | `ProtocolsSpec => []SelectedIsCommon` |
| `CryptoProofs` | `GuardsAreOwn` | `Spec => []GuardIsOwn` |
| | `CountsAreAtomic` | `Spec => CountIsAtomic`: the refinement of `SharedHandle` |
| | `CrypterNoOverrun` | `CrypterSpec => []NoOverrun` |
| | `HasherImplementsDigest` | `HasherSpec => HashesWhatWasWritten`, unless `FinalFails`: the refinement of `Digest` |
| | `SignerRoundTrip` | `SignerSpec => SignatureRoundTrip`: the refinement of `Digest`, and the verifier |
| | `CertificateSignedAsAsked` | `CertSpec => []SignedAsAsked`, one half of `ExtensionsAsAsked` |

The arguments:

*Server.* None of the invariants is inductive alone: `ConsentHasView` needs
that `onboard_user` still has its view when it stores the consent, several calls
after it registered it. `Inv` therefore adds, for each thread, `Mutex` (a thread
inside the engine holds the lock), `Kind` (its call belongs to its request),
`Resource` (what its method has set up or taken down so far is still so),
`Signed` (the identifier of a signed certificate is unused until its intent is
stored, and afterwards it is recorded) and `Poison`; and for the store
`ProxyInv` (a proxy runs only in a running container). With `Mutex`, every other
thread is outside the engine (`Alone`), so its facts survive; docker's own steps
never create or remove a container. One lemma per action and conjunct gives
`InvNext`.

*Identities.* `InstalledInv` says of a thread in `new_mountdir` that the files it has
written are its own draft; with `Alone` nobody else writes there before the container is
created. For leases, `Uses(s, u)` collects every place where a serial number can
be on behalf of a user: files, a running proxy, a lease request, an onboarding under way,
a stored consent. `SerialInv` says that a used number was issued, is not 0 and has one
user. Only `Certify` brings a number into use; for every other step it is shown that what is
used afterwards was used by the same user before. `Certify`'s number was not issued before
(`DistinctSerials`), so nobody uses it. The cast to `i32` is injective (`CastInjective`), so
a document that is found carries the asking proxy's own number.

*Proxy.* The range loop and `p.leases` disagree after a deletion. `ScanInv` distinguishes
the two phases: before it the certificate is in none of the elements passed; after it
`len` is one less than the array, and the certificate is neither in the table nor in what is
still to be visited, so there is no second deletion and no index beyond the table. With
`Unleased`, an answer adds a lease only where there is none. `Fresh` relates the age of a
lease to how long ago tolla would have said yes.

*Relays.* `Ended` and `Told` are the core of both: a peer is told of an end only after the
copy in its direction delivered everything, unless something broke. For the pipe, `Counted`
says what `status` counts, which is why 0 means the second goroutine, not the first. `Shut`
carries a failed handshake's error through every read and write.

*Client.* `Wire(buf, rest, whole)` says that what has arrived and what is under way are a
beginning of what was sent; it is kept by deliveries in any pieces (`WireMoves`) and by a
connection that breaks off (`WireCut`). A request is one field, so prost accepts it only
when it is whole (`DecodesRequest`); an answer is two, so it may be cut to the first
(`DecodesAnswer`), which is what `AnswerHasMessage` fails on and what `ReplyInv` allows for.
`StoredInv` says which files this run has written and that a PEM reader finds those blocks
in them whatever lies behind (`BlockWritten`).

*Streams.* What `make_error` finds can be of an earlier call: a flush does not clear the
retry flag, and the error outlives calls that succeed. `FlagIsOfThisCall` says when it is
not: a failed call with the flag set and no error in the queue failed in the BIO call that
set it. It needs `ClearedBeforeFlush`, since a flush follows a write that succeeded, and the
order of `SSL_get_error`, which looks at the queue first (fatal alerts).

*Locks.* `LockInv` ties a thread's place to the mutex and the slot; it rests on `init`:
nobody is past it before the callback is installed. `CountInv` counts the handles as the
cardinality of the set of pairs of a thread and a number (`Tokens`), says that the value a
thread has read is still the count when it writes it back, and that at most one thread is about
to free the object, when no handle is left.

*Callbacks.* `Safe` says that every box is kept by one object at most, that what is kept is not
freed, and that the contexts of an Ssl are built; `CtxConfigured` and `SslConfigured` that the
trampoline of a slot has the type of the closure that was configured last, in the place it
looks at, unless that one could not be stored. A trampoline that an Ssl has copied from its
context keeps looking in the context that is current, which is why the invariant
distinguishes the slots that are copied again by `set_ssl_context`, and why `ConfiguredRuns`
says nothing of the others after a switch. That a running closure stays alive needs
`RunningInv`: if a context will free its box, it is one of the two that the Ssl holds. A
switch keeps the one the Ssl was made from and may let go of the other, which is the one
case where `left` is set.

*Host names.* The code searches: the first dot, the first `*`, a prefix, a suffix. The
reference `Covers` says that the host is a concatenation. `SearchIsFramed`, `ConcatIsFramed` and
`FramedIsConcat` meet in the middle, at a description position by position (`Framed`), and
`MatchesIsCovers` puts the cases together. For the sessions, `SessionInv` says that what lies
above the current depth was found valid and that the closure has the caller's own host.

*Protocol lists.* Encoding and decoding are loops over data. `Layout` gives the encoding of the
first n names for each n; a name that fits adds its length and its bytes, one that does not adds
nothing (`NoPlace`). The walk of OpenSSL is always at the end of some prefix (`WalkStays`)
and comes to each of them (`WalkVisits`), so its entries are the names that fit
(`EntriesRange`), and for a peer's list the names in their order (`EntriesAll`). The loops are
recursive functions; `Iterates` shows that such a function exists, and `CountUp`, an induction
stated with a set, does what the induction theorems of the library cannot do here.

*Ciphers.* `HeldInv` says of a cipher context that it keeps less than a block, and that a
block is held back beside an unfinished one only when decrypting after padding was changed
twice. `CipherUpdateDoes` then bounds what an `update` writes by the input and one block,
which is what the assertion asks of the slice. It is arithmetic with a symbolic block size;
the provers do not divide by a variable, so lengths are split into blocks and a rest first
(`Division`).

*Digests.* Each action is a step of `Digest` or none, for the chunks that the context holds. An
error of `EVP_DigestFinal_ex` leaves a spent context that the state machine of `Hasher` takes
for one in use, hence the hypothesis; that it fails without is `NoSpentDigest`.

*Certificates.* `Filed` ties vector, map and history: the map is the inverse of the types in the
vector, each element is the last that was added of its type (`LastMoves`), and they stand in the
order of the first adds, which later ones do not change (`FirstStays`).

Only model-checked:

* liveness under fairness, which needs `ENABLED`: `MutexReleased`, `PairReleased`,
  `HalfCloseForwarded`, `RunEnds`;
* ownership (`ForeignType`): `NoUseAfterFree`, `NoLeak` and `MutIsUnique` are about sums over the
  heap, chains of objects that free each other, and what the rows of each group do to borrows;
  they are not properties of all rows but of these, which TLC evaluates and the provers would
  have to be shown row by row;
* `BuildsAsAsked`, the other half of `ExtensionsAsAsked`: the text of an extension is written and
  read back by folds over sequences, and what they compute has not been proved.

## Not modelled

* TLS, X.509, OpenSSL, the mongo and docker daemons, beyond what the code uses of them;
  the shell scripts and docker files of the container images; `get_consent` and
  `get_intent`, which nothing calls; `run_client`.
* `openssl-sys`: constants, layouts and extern declarations, and `nid.rs`, a table.
* `bn.rs` beyond the ownership of its numbers, `aes.rs`, `sha.rs`, `rand.rs`, `memcmp.rs`,
  `pkcs5.rs`, `version.rs`: each function passes its arguments to one of OpenSSL and keeps
  nothing. The cipher lists and options of `ssl/connector.rs`: constants of OpenSSL.
* Additional data and tags of AEAD ciphers, options of a key context, OCSP other than as
  objects that are owned.
* The composition of the server with the proxies of its tenants: deboarding removes the
  container, and with it the proxy, before it erases the consent (`EraseAfterRemoval`,
  proved), so that no proxy asks for a consent that is being erased; between the two
  parts there is only the question of `assertPermissions`, which `TenantProxy` answers
  arbitrarily and at any time.

## Plan

1. Done: authority, store, engine, server, lifecycle refinement, proxy accept
   loop and leases, theorems about the server.
2. Done: relays, codec, client, rust-openssl.
3. Done: theorems about the proxy, the identities of tenants, the relays, the client, the
   streams and the locks.
4. Done: theorems about the callbacks, host names, protocol lists, ciphers, digests and
   the generator of certificates.
5. Open: ownership and the builders of extensions, as explained under Proofs.
