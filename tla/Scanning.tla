------------------------------ MODULE Scanning ------------------------------
(***************************************************************************)
(* The scanners of qw-scanner: what each probe reads of its target, how it *)
(* classifies it, and the findings it hands to the store, which files them *)
(* under the location and the title.                                       *)
(*                                                                         *)
(* A name (cipher suite, key exchange, signature algorithm) is the set of  *)
(* the marks the classifiers look for in it; a title is the tuple of what  *)
(* its text is put together from; an address is a host and a port, 0 for   *)
(* none.  `check' names the place in the code that makes the finding: the  *)
(* code keeps no such field, the properties about the titles need it.      *)
(***************************************************************************)
EXTENDS Integers, Sequences, FiniteSets, SequencesExt

CONSTANT MaxFindings    \* findings after which a code scan stops

Has(name, marks) == name \cap marks # {}
Only(cond, finding) == IF cond THEN <<finding>> ELSE << >>
Pqc == {"pqc_ready", "hybrid"}

Finding(check, location, title, category, severity, status, algorithm) ==
    [check |-> check, location |-> location, title |-> title, category |-> category,
     severity |-> severity, status |-> status, algorithm |-> algorithm]

Address(target, default) == IF target.port = 0 THEN [target EXCEPT !.port = default] ELSE target

-----------------------------------------------------------------------------
(* Certificates.  Three places classify a signature. *)

OIDS == [rsa_sha256 |-> {"rsa", "sha256"}, rsa_sha1 |-> {"rsa", "sha1"}, ecdsa |-> {"ecdsa", "dsa"},
         ed25519 |-> {"ed25519"}, dsa_sha1 |-> {"dsa", "sha1"}, ml_dsa |-> {"ml-dsa", "dsa"}]

\* An identifier without a name keeps its arcs, so a prefix can still match.
resolve(oid) == IF oid \in DOMAIN OIDS THEN OIDS[oid] ELSE {"unknown", oid}

classify_signature(sig, bits) ==
    IF Has(sig, {"ml-dsa", "dilithium"}) THEN "pqc_ready"
    ELSE IF Has(sig, {"ecdsa", "ed25519", "ed448"}) THEN "classical_secure"
    ELSE IF Has(sig, {"rsa"}) THEN IF bits # 0 /\ bits < 2048 THEN "classical_weak" ELSE "classical_secure"
    ELSE IF Has(sig, {"dsa", "sha1"}) THEN "classical_weak"
    ELSE "unknown"

classify_signature_of_file(sig, bits) ==
    IF Has(sig, {"ml-dsa", "dilithium"}) THEN "pqc_ready"
    ELSE IF Has(sig, {"ecdsa", "1.2.840.10045"}) THEN "classical_secure"
    ELSE IF Has(sig, {"rsa", "1.2.840.113549"})
         THEN IF bits # 0 /\ bits < 2048 THEN "classical_weak" ELSE "classical_secure"
    ELSE "unknown"

\* Of a certificate presented in a handshake the key is not looked at.
classify_peer_signature(sig) ==
    IF Has(sig, {"ml-dsa", "dilithium"}) THEN "pqc_ready"
    ELSE IF Has(sig, {"ecdsa", "rsa", "ed25519", "ed448", "dsa"}) THEN "classical_secure"
    ELSE "unknown"

\* A certificate fetched from elsewhere; it may not parse.
classify_cert(cert) ==
    IF ~cert.parses THEN [algorithm |-> {"unknown"}, status |-> "unknown"]
    ELSE [algorithm |-> resolve(cert.oid), status |-> classify_signature(resolve(cert.oid), cert.bits)]

Expiry(days) == IF days < 0 THEN "expired_certificate" ELSE IF days < 30 THEN "expiring_certificate" ELSE "valid"
ExpirySeverity(days) == IF days < 0 THEN "critical" ELSE IF days < 30 THEN "high" ELSE "info"

\* The certificate scanner: a file with one certificate; it fails, with no
\* finding, when the file cannot be read as one.
CertificateScan(file, cert) ==
    IF ~cert.parses THEN << >>
    ELSE LET sig == resolve(cert.oid)
             status == classify_signature_of_file(sig, cert.bits)
             f(check, title, category, severity, st) == Finding(check, file, title, category, severity, st, sig)
         IN  Only(Expiry(cert.days) # "valid",
                  f(<<"expiry">>, <<Expiry(cert.days), cert.subject>>, Expiry(cert.days), ExpirySeverity(cert.days), status))
             \o Only(status = "classical_weak" /\ cert.bits # 0,
                     f(<<"key">>, <<"Short RSA key", cert.bits, cert.subject>>, "short_key_length", "high", "classical_weak"))
             \o <<f(<<"signature">>, <<"Certificate signature algorithm", sig>>,
                    IF status = "pqc_ready" THEN "pqc_ready" ELSE "missing_pqc",
                    IF status = "pqc_ready" THEN "info" ELSE "medium", status)>>

-----------------------------------------------------------------------------
(* TLS.  A connection that could be made has a version, a cipher suite and  *)
(* the certificates of the peer; `None' is a handshake that failed.          *)

None == [made |-> FALSE]

classify_cipher_suite(name) ==
    IF Has(name, {"X25519_KYBER", "X25519MLKEM", "X25519_ML_KEM"}) THEN "hybrid"
    ELSE IF Has(name, {"KYBER", "ML_KEM", "MLKEM"}) THEN "pqc_ready"
    ELSE IF Has(name, {"AES_256", "CHACHA20", "AES_128"}) THEN "classical_secure"
    ELSE IF Has(name, {"3DES", "RC4", "NULL"}) THEN "classical_weak"
    ELSE "unknown"

classify_tls_version(version) ==
    CASE version \in {"TLS 1.3", "TLS 1.2"} -> "classical_secure"
      [] version \in {"TLS 1.1", "TLS 1.0"} -> "classical_weak"
      [] OTHER -> "unknown"

overall_pqc(version, cipher) ==
    LET both == {classify_tls_version(version), classify_cipher_suite(cipher)} IN
    IF "classical_weak" \in both THEN "classical_weak"
    ELSE IF both = {"pqc_ready"} THEN "pqc_ready"
    ELSE IF both \cap Pqc # {} THEN "hybrid"
    ELSE "classical_secure"

ProtocolFinding(host, address, conn) ==
    LET old == conn.version \in {"TLS 1.0", "TLS 1.1"} IN
    Finding(<<"protocol">>, address, <<"TLS", conn.version, host>>,
            IF old THEN "deprecated_protocol" ELSE "classical_crypto",
            IF old THEN "high" ELSE IF conn.version = "TLS 1.2" THEN "medium" ELSE "info",
            overall_pqc(conn.version, conn.cipher), conn.cipher)

PeerFinding(host, address, i, cert) ==
    Finding(<<"peer", i>>, address, <<"Certificate", i, host>>,
            IF Expiry(cert.days) = "valid" THEN "classical_crypto" ELSE Expiry(cert.days),
            ExpirySeverity(cert.days), classify_peer_signature(resolve(cert.oid)), resolve(cert.oid))

findings_from_conn(host, address, conn) ==
    <<ProtocolFinding(host, address, conn)>>
    \o FlattenSeq([i \in DOMAIN conn.certs |->
                      Only(conn.certs[i].parses, PeerFinding(host, address, i, conn.certs[i]))])

\* The scan of an endpoint that speaks TLS at once, or fails.
TlsScan(target, conn) ==
    IF ~conn.made THEN << >>
    ELSE findings_from_conn(target.host, Address(target, 443), conn)

-----------------------------------------------------------------------------
(* SSH.  A list of lines is read until one identifies the server, then one *)
(* packet, whose name lists are found by the lengths that precede them.    *)

classify_kex(name) ==
    IF Has(name, {"sntrup761x25519", "mlkem768x25519", "mlkem768nistp256", "mlkem1024nistp384",
                  "curve25519-frodokem", "ecdh-nistp256-kyber", "x25519-kyber", "kyber-512-x25519"}) THEN "hybrid"
    ELSE IF Has(name, {"mlkem", "sntrup", "kyber"}) THEN "pqc_ready"
    ELSE IF Has(name, {"sha1", "group1-"}) THEN "classical_weak"
    ELSE IF Has(name, {"curve25519", "ecdh-sha2", "group14-sha256", "group16", "group18", "group-exchange-sha256"})
         THEN "classical_secure"
    ELSE "unknown"

classify_host_key(name) ==
    IF Has(name, {"ml-dsa", "dilithium", "sphincs"}) THEN "pqc_ready"
    ELSE IF Has(name, {"ssh-rsa", "ssh-dss"}) THEN "classical_weak"
    ELSE IF Has(name, {"ed25519", "ed448", "ecdsa-sha2", "rsa-sha2-256", "rsa-sha2-512"}) THEN "classical_secure"
    ELSE "unknown"

classify_cipher(name) ==
    IF Has(name, {"chacha20-poly1305", "aes-gcm", "aes-ctr"}) THEN "classical_secure"
    ELSE IF Has(name, {"3des", "arcfour", "blowfish", "cast128", "-cbc", "des-", "none"}) THEN "classical_weak"
    ELSE "unknown"

classify_mac(name) ==
    IF Has(name, {"md5", "sha1", "ripemd160", "-96"}) THEN "classical_weak"
    ELSE IF Has(name, {"hmac-sha2-256", "hmac-sha2-512", "umac-128", "umac-64"}) THEN "classical_secure"
    ELSE "unknown"

\* A line longer than 255 ends the attempt, as does the 65th without "SSH-".
read_ident(lines) ==
    LET stop == {i \in 1..Len(lines) : lines[i].length > 255 \/ lines[i].ssh} IN
    stop # {} /\ LET i == CHOOSE j \in stop : \A k \in stop : j <= k
                 IN  i <= 64 /\ lines[i].length <= 255

MaxPacket == 128 * 1024

\* What read_name_list, at `pos' of a payload of `size' bytes, does with a list
\* that says it has `length' bytes: the parts of the payload it reads, and where
\* the next list begins (0: it gave up).
UncheckedList(size, pos, length) ==
    IF pos = 0 \/ pos + 4 > size THEN [reads |-> {}, next |-> 0]
    ELSE [reads |-> {<<pos, pos + 4>>, <<pos + 4, pos + 4 + length>>}, next |-> pos + 4 + length]

read_name_list(size, pos, length) ==
    IF pos = 0 \/ pos + 4 > size THEN [reads |-> {}, next |-> 0]
    ELSE IF pos + 4 + length > size THEN [reads |-> {<<pos, pos + 4>>}, next |-> 0]
    ELSE [reads |-> {<<pos, pos + 4>>, <<pos + 4, pos + 4 + length>>}, next |-> pos + 4 + length]

\* The five lists that are read begin after the message number and the cookie.
NameLists(size, lengths) ==
    LET at[i \in 0..5] == IF i = 0 THEN [reads |-> {}, next |-> 17]
                          ELSE read_name_list(size, at[i - 1].next, lengths[i])
    IN  [reads |-> UNION {at[i].reads : i \in 0..5}, ok |-> at[5].next # 0]

\* A packet announces its length and its padding; reads are pairs of the first
\* byte and the one after the last, the payload's within the payload.
read_kexinit(packet) ==
    LET size == packet.length - packet.padding - 1 IN
    IF packet.length \notin 2..MaxPacket \/ packet.padding + 1 > packet.length
    THEN [size |-> 0, reads |-> {}, ok |-> FALSE]
    ELSE IF size = 0 \/ packet.message # 20 THEN [size |-> size, reads |-> {}, ok |-> FALSE]
    ELSE [size |-> size, reads |-> {<<0, 1>>} \cup NameLists(size, packet.lists).reads,
          ok |-> NameLists(size, packet.lists).ok]

\* The location is the target as declared, without a default port.
KexFinding(target, host, kex) ==
    LET offers == \E i \in DOMAIN kex : classify_kex(kex[i]) \in Pqc
        prefers == kex # << >> /\ classify_kex(kex[1]) \in Pqc
    IN  Finding(<<"key_exchange">>, target, <<"SSH key exchange", host>>,
                IF prefers THEN "pqc_ready" ELSE "missing_pqc",
                IF prefers THEN "info" ELSE IF offers THEN "low" ELSE "high",
                IF offers THEN "hybrid" ELSE "classical_secure",
                IF kex = << >> THEN {} ELSE kex[1])

WeakFinding(target, host, family, weak) ==
    Only(weak # {}, Finding(<<family>>, target, <<"Weak SSH", family, host>>, "weak_algorithm", "medium",
                            "classical_weak", UNION weak))

\* The headline is the key exchange, then one finding per family with a weak
\* algorithm.
evaluate(target, host, k) ==
    <<KexFinding(target, host, k.kex)>>
    \o WeakFinding(target, host, "host_key", {n \in k.host_key : classify_host_key(n) = "classical_weak"})
    \o WeakFinding(target, host, "cipher", {n \in k.ciphers : classify_cipher(n) = "classical_weak"})
    \o WeakFinding(target, host, "mac", {n \in k.macs : classify_mac(n) = "classical_weak"})

\* A server that does not answer, or not as SSH, fails the scan.
SshScan(target, server) ==
    IF ~server.made \/ ~read_ident(server.ident) \/ ~read_kexinit(server.packet).ok THEN << >>
    ELSE evaluate(target, target.host, server.offer)

-----------------------------------------------------------------------------
(* RDP: one answer says which security layer the server takes; if it is TLS *)
(* the same socket is fingerprinted, and a failure of that is only logged.   *)

\* What read_confirm makes of an answer, and the bytes of the body it reads.
read_confirm(answer) ==
    LET body == answer.total - 4 IN
    IF answer.version # 3 \/ answer.total \notin 7..1024 \/ body < 7
    THEN [outcome |-> "error", size |-> 0, reads |-> {}]
    ELSE IF ~answer.confirm THEN [outcome |-> "error", size |-> body, reads |-> {<<0, 2>>}]
    ELSE IF answer.li <= 6 \/ body < 7 + 8 THEN [outcome |-> "no_negotiation", size |-> body, reads |-> {<<0, 2>>}]
    ELSE [outcome |-> answer.neg, size |-> body, reads |-> {<<0, 2>>, <<7, 15>>}]

\* selectedProtocol has a CredSSP bit, is TLS or another value, or zero; a failure
\* is "TLS is not allowed" or another code.
RdpTls == {"credssp", "ssl", "other"}
RdpLegacy == {"standard", "ssl_not_allowed", "no_negotiation"}

security_finding(host, address, outcome) ==
    Finding(<<"layer">>, address, <<"RDP security layer", host, outcome>>,
            IF outcome \in RdpLegacy THEN "weak_algorithm" ELSE "missing_pqc",
            IF outcome \in RdpLegacy THEN "high" ELSE IF outcome \in RdpTls THEN "medium" ELSE "low",
            IF outcome \in RdpLegacy THEN "classical_weak" ELSE "classical_secure", {outcome})

RdpScan(target, server) ==
    LET address == Address(target, 3389)
        outcome == read_confirm(server.answer).outcome
    IN  IF ~server.made \/ outcome = "error" THEN << >>
        ELSE <<security_finding(target.host, address, outcome)>>
             \o IF outcome \in RdpTls /\ server.conn.made
                THEN findings_from_conn(target.host, address, server.conn) ELSE << >>

-----------------------------------------------------------------------------
(* STARTTLS: the session is upgraded first; a server that stays in plaintext *)
(* fails the scan.  A target says which protocol, or its port does.          *)

StartTlsPort(port) ==
    CASE port = 5432 -> "postgres" [] port \in {25, 587, 2525} -> "smtp" [] OTHER -> "none"

StartTlsProtocol(target, declared) ==
    CASE declared \in {"postgres", "postgresql"} -> "postgres"
      [] declared = "smtp" -> "smtp"
      [] declared = "" -> StartTlsPort(target.port)
      [] OTHER -> "none"

\* A reply ends with a line of three characters, or whose fourth is a space;
\* the 65th line is not read.  Its code is that line's.
read_smtp_reply(lines) ==
    LET last == {i \in 1..Len(lines) : lines[i].last /\ i <= 64} IN
    IF last = {} THEN [code |-> 0, starttls |-> FALSE]
    ELSE LET i == CHOOSE j \in last : \A k \in last : j <= k
         IN  [code |-> lines[i].code, starttls |-> \E j \in 1..i : lines[j].starttls]

negotiate_postgres(server) == server.reply = "S"

negotiate_smtp(server) ==
    /\ read_smtp_reply(server.greeting).code = 220
    /\ read_smtp_reply(server.ehlo).code = 250
    /\ read_smtp_reply(server.ehlo).starttls
    /\ read_smtp_reply(server.upgrade).code = 220

StartTlsScan(target, declared, server) ==
    LET proto == StartTlsProtocol(target, declared)
        address == Address(target, IF proto = "postgres" THEN 5432 ELSE 587)
    IN  IF proto # "none" /\ server.made /\ server.conn.made
           /\ (IF proto = "postgres" THEN negotiate_postgres(server) ELSE negotiate_smtp(server))
        THEN findings_from_conn(target.host, address, server.conn) ELSE << >>

-----------------------------------------------------------------------------
(* The sweep of a host: every port is probed, the open ones are summed up,  *)
(* and each is handed to the scanner of its protocol, whose failure is only *)
(* logged.  `servers' has a server for every open port.                     *)

ImmediateTls == {443, 465, 636, 853, 993, 995, 6443, 8443}

PortScan(host, port, server) ==
    LET target == [host |-> host, port |-> port] IN
    CASE port = 22 -> SshScan(target, server)
      [] port = 3389 -> RdpScan(target, server)
      [] port \in ImmediateTls -> TlsScan(target, server)
      [] StartTlsPort(port) # "none" -> StartTlsScan(target, StartTlsPort(port), server)
      [] OTHER -> <<Finding(<<"open">>, target, <<"open", port, host>>, "classical_crypto", "info", "unknown", {})>>

\* A target with a port has only that one probed.
Probed(target, ports) == IF target.port = 0 THEN ports ELSE {target.port}

\* Mutant: the first port whose fingerprint fails ends the sweep.
FailFast(target, ports, servers) ==
    LET host == target.host
        open == SetToSortSeq(Probed(target, ports) \cap DOMAIN servers, <)
    IN  IF open = << >> \/ \E i \in DOMAIN open : PortScan(host, open[i], servers[open[i]]) = << >> THEN << >>
        ELSE <<Finding(<<"surface">>, [host |-> host, port |-> 0], <<"open ports", Len(open), host>>, "classical_crypto", "info",
                       "unknown", {})>>
             \o FlattenSeq([i \in DOMAIN open |-> PortScan(host, open[i], servers[open[i]])])

NetworkScan(target, ports, servers) ==
    LET host == target.host
        open == SetToSortSeq(Probed(target, ports) \cap DOMAIN servers, <)
    IN  IF open = << >> THEN << >>
        ELSE <<Finding(<<"surface">>, [host |-> host, port |-> 0], <<"open ports", Len(open), host>>, "classical_crypto", "info",
                       "unknown", {})>>
             \o FlattenSeq([i \in DOMAIN open |-> PortScan(host, open[i], servers[open[i]])])

-----------------------------------------------------------------------------
(* Data at rest: read off what is declared of a store; no cipher is {}. *)

wrap_is_quantum_vulnerable(wrap) == Has(wrap, {"rsa", "ecdh", "ecdsa", "ecc", "-dh", "diffie"})
wrap_is_pqc(wrap) == Has(wrap, {"ml-kem", "mlkem", "kyber", "hybrid", "ml-dsa"})

StoreProblems(store, max_age) ==
    LET f(check, title, category, severity, status) ==
            Finding(check, store.address, title, category, severity, status, store.enc)
    IN  Only(Has(store.enc, {"aes-128", "aes128", "3des", "des", "rc4", "blowfish", "aes-ecb"}),
             f(<<"cipher">>, <<"Weak at-rest cipher", store.enc>>, "weak_algorithm", "high", "classical_weak"))
        \o Only(wrap_is_quantum_vulnerable(store.wrap),
                f(<<"kek">>, <<"quantum-vulnerable KEK">>, "missing_pqc", "high", "classical_weak"))
        \o Only(store.age > max_age,
                f(<<"age">>, <<"At-rest key not rotated", store.age>>, "stale_key_rotation",
                  IF store.age > max_age * 2 THEN "medium" ELSE "low", "classical_secure"))
        \o Only(~store.tls,
                f(<<"transit">>, <<"not TLS-protected">>, "deprecated_protocol", "medium", "classical_weak"))

DataStoreScan(store, max_age) ==
    IF Has(store.enc, {"none", "off", "disabled", "plaintext", "false"}) \/ store.enc = {}
    THEN <<Finding(<<"plain">>, store.address, <<"Data at rest is not encrypted", store.address>>,
                   "unencrypted_at_rest", "critical", "classical_weak", store.enc)>>
    ELSE IF StoreProblems(store, max_age) # << >> THEN StoreProblems(store, max_age)
    ELSE <<Finding(<<"clean">>, store.address, <<"strong", wrap_is_pqc(store.wrap)>>, "pqc_ready", "info",
                   IF wrap_is_pqc(store.wrap) THEN "pqc_ready" ELSE "classical_secure", store.enc)>>

-----------------------------------------------------------------------------
(* Manifests: the sections that are read, in order, and the names in them  *)
(* that are known.  A package has its name as written, the name in lower   *)
(* case, that with dashes, and its last segment with dashes.               *)

CRYPTO_LIBS == [ml_kem |-> "pqc_ready", ring |-> "classical_secure", openssl |-> "classical_secure", des |-> "classical_weak"]

\* A Cargo or npm finding also says in which section the name stands, `named';
\* its title does not.
crypto_finding(path, package, named, status) ==
    Finding(<<"dependency">> \o named, path, <<"Crypto dependency", package.name>>,
            CASE status = "pqc_ready" -> "pqc_ready" [] status = "classical_weak" -> "weak_algorithm" [] OTHER -> "classical_crypto",
            CASE status = "pqc_ready" -> "info" [] status = "classical_weak" -> "high" [] OTHER -> "medium",
            status, {})

\* The known packages of some sections, by one of a package's keys.
match_lib(manifest, sections, key) ==
    LET named(s) == IF manifest.type \in {"cargo", "cargo_lock", "npm"} THEN <<s>> ELSE << >>
        found(p, s) == Only(p[key] \in DOMAIN CRYPTO_LIBS,
                            crypto_finding(manifest.path, p, named(s), CRYPTO_LIBS[p[key]]))
        read(s) == IF s \in DOMAIN manifest.sections THEN manifest.sections[s] ELSE << >>
    IN  FlattenSeq([i \in DOMAIN sections |->
            FlattenSeq([j \in DOMAIN read(sections[i]) |-> found(read(sections[i])[j], sections[i])])])

parse_cargo_toml(m) ==
    match_lib(m, <<"dependencies", "dev-dependencies", "build-dependencies", "workspace">>, "dashed")
parse_package_json(m) == match_lib(m, <<"dependencies", "devDependencies">>, "lower")
parse_requirements_txt(m) == match_lib(m, <<"all">>, "dashed")
parse_go_mod(m) == match_lib(m, <<"all">>, "leaf")
parse_pom_xml(m) == match_lib(m, <<"all">>, "dashed")
parse_gemfile(m) == match_lib(m, <<"all">>, "dashed")
parse_composer_json(m) == match_lib(m, <<"require", "require-dev">>, "leaf")

\* A file of another name fails the scan.
DependencyScan(m) ==
    CASE m.type \in {"cargo", "cargo_lock"} -> parse_cargo_toml(m)
      [] m.type = "npm" -> parse_package_json(m)
      [] m.type = "pip" -> parse_requirements_txt(m)
      [] m.type = "go" -> parse_go_mod(m)
      [] m.type = "maven" -> parse_pom_xml(m)
      [] m.type = "rubygems" -> parse_gemfile(m)
      [] m.type = "composer" -> parse_composer_json(m)
      [] OTHER -> << >>

-----------------------------------------------------------------------------
(* Source code: the files of a tree, and in each line the first match of    *)
(* every pattern.  A line maps the patterns that match it to what matched.   *)

PATTERNS == <<"private_key", "aws_key", "api_key", "password", "md5", "sha1", "des", "rc4", "ecb", "public_key">>

PatternCategory(pattern) ==
    CASE pattern \in {"private_key", "aws_key", "api_key", "password"} -> "hardcoded_key"
      [] pattern = "public_key" -> "missing_pqc"
      [] OTHER -> "weak_algorithm"

collect_files(files) ==
    LET sources == SelectSeq(files, LAMBDA f : f.source /\ ~f.skipped /\ f.size <= 1048576)
    IN  SubSeq(sources, 1, IF Len(sources) < 2000 THEN Len(sources) ELSE 2000)

PatternFinding(path, pattern, matched) ==
    Finding(<<pattern>>, path, <<pattern>>, PatternCategory(pattern),
            IF PatternCategory(pattern) = "hardcoded_key" THEN "high" ELSE "medium",
            IF pattern = "public_key" THEN "classical_secure" ELSE "classical_weak",
            IF PatternCategory(pattern) = "hardcoded_key" THEN {} ELSE {matched})

LineFindings(path, line) ==
    FlattenSeq([i \in DOMAIN PATTERNS |->
        Only(PATTERNS[i] \in DOMAIN line, PatternFinding(path, PATTERNS[i], line[PATTERNS[i]]))])

\* The scan stops at its limit, in the middle of a line if need be.
CodeScan(files) ==
    LET sources == collect_files(files)
        all == FlattenSeq([i \in DOMAIN sources |->
                   FlattenSeq([j \in DOMAIN sources[i].lines |-> LineFindings(sources[i].path, sources[i].lines[j])])])
    IN  SubSeq(all, 1, IF Len(all) < MaxFindings THEN Len(all) ELSE MaxFindings)

-----------------------------------------------------------------------------
(* Certificate transparency: the log's entries, newest first, each once.   *)
(* The title names the common name, not the certificate.                   *)

parse_entries(entries, cap) ==
    LET sorted == SortSeq(SelectSeq(entries, LAMBDA e : e.id # 0), LAMBDA a, b : a.time > b.time)
        first == {i \in DOMAIN sorted : \A j \in 1..(i - 1) : sorted[j].id # sorted[i].id}
        once == [i \in 1..Cardinality(first) |-> sorted[SetToSortSeq(first, <)[i]]]
    IN  SubSeq(once, 1, IF Len(once) < cap THEN Len(once) ELSE cap)

\* A certificate that cannot be fetched or read is of unknown posture; one with
\* a post-quantum signature is still filed as missing PQC.
CtFinding(entry) ==
    LET cert == classify_cert(entry.cert)
        weak == cert.status = "classical_weak"
    IN  Finding(<<"ct", entry.id>>, entry.cn, <<"CT-logged certificate", entry.cn>>,
                IF weak THEN "weak_algorithm" ELSE "missing_pqc", IF weak THEN "high" ELSE "medium",
                cert.status, cert.algorithm)

CtScan(entries, cap) ==
    LET listed == parse_entries(entries, cap) IN [i \in DOMAIN listed |-> CtFinding(listed[i])]

-----------------------------------------------------------------------------
(* The store's side: a row per location and title, the last one written. *)

stable_finding_id(f) == <<f.location, f.title>>

record_scan(rows, findings) ==
    FoldLeft(LAMBDA acc, f : {r \in acc : stable_finding_id(r) # stable_finding_id(f)} \cup {f}, rows, findings)

=============================================================================
