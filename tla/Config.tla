-------------------------------- MODULE Config --------------------------------
(***************************************************************************)
(* internal/config/config.go and the parts of cmd/server/main.go that read *)
(* the configuration: Load fills a Config from the environment, Validate   *)
(* checks it and rewrites some of its fields as it goes, and setupLogging, *)
(* buildUnaryInterceptors and buildGRPCServerOptions then branch on the    *)
(* strings they find in it.                                                *)
(*                                                                         *)
(* A string is a word and the form it is spelled in: with other letter     *)
(* cases, between spaces, both or neither. Two strings are equal when word *)
(* and form are; TrimSpace drops the spaces, ToLower and ToUpper the case. *)
(* An integer or a Boolean of the environment is <<>> when it is absent or *)
(* cannot be parsed and <<v>> otherwise. Fields have the code's names      *)
(* without GRPC, Auth, AuthIntrospection, Authz and PrivateKeyJWT.         *)
(***************************************************************************)
EXTENDS Integers, Sequences, FiniteSets

CONSTANTS Words,       \* what a string says, apart from its form
          Envs,        \* the environments the process may be started in
          Files,       \* what AUTH_INTROSPECTION_PRIVATE_KEY_FILE can hold:
                       \* <<>> unreadable, <<s>> a string
          MaxBits      \* nist.MaxBits

\* The empty word has no letters to change.
Strings == {s \in [word : Words, form : SUBSET {"case", "spaces"}] :
              s.word = "" => "case" \notin s.form}
Optional(S) == {v \in Seq(S) : Len(v) <= 1}

Numbers == {"Port", "MaxRecv", "MaxSend", "MetricsPort"}
Switches == {"TLSEnabled", "Enabled"}
Lists == {"RequiredRoles", "RequiredScopes", "RoleClaimPaths", "ScopeClaimPaths"}
Texts == {"TLSCertFile", "TLSKeyFile", "TLSClientAuth", "TLSMinVersion",
          "LogLevel", "Issuer", "Audience", "JWKSURL", "TokenType", "URL",
          "AuthMethod", "ClientID", "ClientSecret", "PrivateKey",
          "PrivateKeyFile", "Algorithm", "RoleMatchMode", "ScopeMatchMode"}
Fields == Numbers \cup Switches \cup Lists \cup Texts

IsEnvironment(e) ==
    /\ DOMAIN e = Fields
    /\ \A f \in Numbers : e[f] \in Optional(Int)
    /\ \A f \in Switches : e[f] \in Optional(BOOLEAN)
    /\ \A f \in Lists : e[f] \in Seq(Strings)
    /\ \A f \in Texts : e[f] \in Strings

\* The words the code puts into a Config itself.
Literals == {"", "none", "1.2", "info", "jwt", "opaque", "client_secret_basic",
             "private_key_jwt", "any", "all"}

ASSUME ConfigAssumption == /\ Literals \subseteq Words
                           /\ \A e \in Envs : IsEnvironment(e)
                           /\ Files \subseteq Optional(Strings)
                           /\ MaxBits \in Nat

Spelling(w, f) == [word |-> w, form |-> f]
Exact(w) == Spelling(w, {})
Empty == Exact("")

TrimSpace(s) == [s EXCEPT !.form = @ \ {"spaces"}]

\* The switch of a parse function: a value and the words that stand for it.
\* Each one folds the case and the spaces of its argument first.
Parses(aliases, s) == \E v \in DOMAIN aliases : s.word \in aliases[v]
Parsed(aliases, s) == CHOOSE v \in DOMAIN aliases : s.word \in aliases[v]

clientAuthAliases ==
    [NoClientCert               |-> {"", "none", "noclientcert"},
     RequestClientCert          |-> {"request", "requestclientcert"},
     RequireAnyClientCert       |-> {"requireany", "requireanyclientcert"},
     VerifyClientCertIfGiven    |-> {"verifyifgiven", "verify_client_cert_if_given"},
     RequireAndVerifyClientCert |-> {"requireandverify",
                                     "requireandverifyclientcert", "mtls"}]
minVersionAliases == [VersionTLS12 |-> {"", "default", "1.2", "tls1.2", "tls12"},
                      VersionTLS13 |-> {"1.3", "tls1.3", "tls13"}]
tokenTypeAliases == [jwt |-> {"", "jwt"}, opaque |-> {"opaque"}]
authMethodAliases == [client_secret_basic |-> {"", "client_secret_basic"},
                      private_key_jwt     |-> {"private_key_jwt"}]
matchModeAliases == [any |-> {"", "any"}, all |-> {"all"}]
algorithms == {"", "RS256", "ES256"}
logLevels == {"debug", "info", "warn", "error"}

\* (Mutant: an entry of spaces only is kept, as an empty name.)
TrimmedValues(values) == [i \in DOMAIN values |-> TrimSpace(values[i])]

normalizeCSVValues(values) ==
    LET kept[i \in 0..Len(values)] ==
          IF i = 0 THEN <<>>
          ELSE IF TrimSpace(values[i]) = Empty THEN kept[i - 1]
          ELSE Append(kept[i - 1], TrimSpace(values[i]))
    IN kept[Len(values)]

-----------------------------------------------------------------------------
VARIABLES pc,        \* how far run() has come
          env,       \* the environment; nobody writes it
          cfg,       \* the Config
          file,      \* the content of the private key file, when it is named
          server     \* what the consumers have built

vars == <<pc, env, cfg, file, server>>

defaultGRPCMaxMessageSize == 15 * 1024 * 1024
fallbackMessageSize == 10 * 1024 * 1024

NotLoaded == [loaded |-> FALSE]
NotBuilt == [level |-> "unset", validator |-> "unset", policy |-> "unset",
             recv |-> 0, send |-> 0, tls |-> "unset"]

Init == /\ pc = "load"
        /\ env \in Envs
        /\ file \in Files
        /\ cfg = NotLoaded
        /\ server = NotBuilt

getEnvString(s, default) == IF s = Empty THEN Exact(default) ELSE s
getEnvValue(v, default) == IF v = <<>> THEN default ELSE v[1]

\* The composite literal of Load.
ConfigOf(e) ==
    [Port            |-> getEnvValue(e.Port, 9090),
     MaxRecv         |-> getEnvValue(e.MaxRecv, defaultGRPCMaxMessageSize),
     MaxSend         |-> getEnvValue(e.MaxSend, defaultGRPCMaxMessageSize),
     TLSEnabled      |-> getEnvValue(e.TLSEnabled, FALSE),
     TLSCertFile     |-> getEnvString(e.TLSCertFile, ""),
     TLSKeyFile      |-> getEnvString(e.TLSKeyFile, ""),
     TLSClientAuth   |-> getEnvString(e.TLSClientAuth, "none"),
     TLSMinVersion   |-> getEnvString(e.TLSMinVersion, "1.2"),
     MetricsPort     |-> getEnvValue(e.MetricsPort, 9091),
     LogLevel        |-> getEnvString(e.LogLevel, "info"),
     Enabled         |-> getEnvValue(e.Enabled, FALSE),
     Issuer          |-> getEnvString(e.Issuer, ""),
     Audience        |-> getEnvString(e.Audience, ""),
     JWKSURL         |-> getEnvString(e.JWKSURL, ""),
     TokenType       |-> getEnvString(e.TokenType, "jwt"),
     URL             |-> getEnvString(e.URL, ""),
     AuthMethod      |-> getEnvString(e.AuthMethod, "client_secret_basic"),
     ClientID        |-> getEnvString(e.ClientID, ""),
     ClientSecret    |-> getEnvString(e.ClientSecret, ""),
     PrivateKey      |-> getEnvString(e.PrivateKey, ""),
     PrivateKeyFile  |-> getEnvString(e.PrivateKeyFile, ""),
     Algorithm       |-> getEnvString(e.Algorithm, ""),
     RequiredRoles   |-> normalizeCSVValues(e.RequiredRoles),
     RequiredScopes  |-> normalizeCSVValues(e.RequiredScopes),
     RoleMatchMode   |-> getEnvString(e.RoleMatchMode, "any"),
     ScopeMatchMode  |-> getEnvString(e.ScopeMatchMode, "any"),
     RoleClaimPaths  |-> normalizeCSVValues(e.RoleClaimPaths),
     ScopeClaimPaths |-> normalizeCSVValues(e.ScopeClaimPaths)]

\* Validate follows.
Load ==
    /\ pc = "load" /\ pc' = "sizes"
    /\ cfg' = ConfigOf(env)
    /\ UNCHANGED <<env, file, server>>

-----------------------------------------------------------------------------
\* Validate, one action per group of checks. Each either goes on with the
\* fields it rewrites or returns an error, on which Load drops the Config.
Check(here, ok, next, newCfg) ==
    /\ pc = here
    /\ IF ok THEN pc' = next /\ cfg' = newCfg
             ELSE pc' = "rejected" /\ cfg' = NotLoaded
    /\ UNCHANGED <<env, file, server>>

\* (Mutant: a size of zero is left as it is.)
SizeAsGiven(n) == n

SizeOrDefault(n) == IF n = 0 THEN defaultGRPCMaxMessageSize ELSE n

Ports == 1..65535
ValidPort(n) == n \in Ports

ValidSizes == /\ ValidPort(cfg.Port) /\ ValidPort(cfg.MetricsPort)
              /\ cfg.MaxRecv >= 0 /\ cfg.MaxSend >= 0
              /\ cfg.LogLevel \in {Exact(l) : l \in logLevels}

ValidateSizes ==
    Check("sizes", ValidSizes, "authz",
          [cfg EXCEPT !.MaxRecv = SizeOrDefault(@), !.MaxSend = SizeOrDefault(@)])

\* (Mutant: the mode is checked and its spelling kept.)
ModeAsGiven(s) == s

NormalMode(s) == Exact(Parsed(matchModeAliases, s))

ValidAuthz == /\ Parses(matchModeAliases, cfg.RoleMatchMode)
              /\ Parses(matchModeAliases, cfg.ScopeMatchMode)

ValidateAuthz ==
    Check("authz", ValidAuthz, "auth",
          [cfg EXCEPT !.RoleMatchMode   = NormalMode(@),
                      !.ScopeMatchMode  = NormalMode(@),
                      !.RequiredRoles   = normalizeCSVValues(@),
                      !.RequiredScopes  = normalizeCSVValues(@),
                      !.RoleClaimPaths  = normalizeCSVValues(@),
                      !.ScopeClaimPaths = normalizeCSVValues(@)])

ValidAuth == cfg.Enabled => /\ cfg.Issuer # Empty /\ cfg.Audience # Empty
                            /\ Parses(tokenTypeAliases, cfg.TokenType)

ValidateAuth ==
    Check("auth", ValidAuth, "introspection",
          IF cfg.Enabled
          THEN [cfg EXCEPT !.TokenType = Exact(Parsed(tokenTypeAliases, @))]
          ELSE cfg)

Opaque == cfg.Enabled /\ cfg.TokenType = Exact("opaque")

\* The key in use once the file, if one is named, has been read.
KeyRead == IF TrimSpace(cfg.PrivateKeyFile) = Empty THEN TrimSpace(cfg.PrivateKey)
           ELSE IF file = <<>> THEN Empty ELSE TrimSpace(file[1])

\* (Mutant: the key in the environment may stand beside the file.)
EitherSource == TrimSpace(cfg.PrivateKey) # Empty
                    \/ TrimSpace(cfg.PrivateKeyFile) # Empty

OneSource == (TrimSpace(cfg.PrivateKey) = Empty)
                # (TrimSpace(cfg.PrivateKeyFile) = Empty)

Basic == Parsed(authMethodAliases, cfg.AuthMethod) = "client_secret_basic"

ValidIntrospection ==
    Opaque => /\ cfg.URL # Empty
              /\ Parses(authMethodAliases, cfg.AuthMethod)
              /\ IF Basic THEN cfg.ClientID # Empty /\ cfg.ClientSecret # Empty
                 ELSE /\ OneSource /\ KeyRead # Empty
                      /\ cfg.Algorithm.word \in algorithms

ValidateIntrospection ==
    Check("introspection", ValidIntrospection, "tls",
          IF ~ Opaque THEN cfg
          ELSE IF Basic THEN [cfg EXCEPT !.AuthMethod = Exact("client_secret_basic")]
          ELSE [cfg EXCEPT !.AuthMethod     = Exact("private_key_jwt"),
                           !.PrivateKey     = KeyRead,
                           !.PrivateKeyFile = TrimSpace(@),
                           !.Algorithm      = Exact(@.word)])

TLSParses == /\ Parses(clientAuthAliases, cfg.TLSClientAuth)
             /\ Parses(minVersionAliases, cfg.TLSMinVersion)

\* (Mutant: TLS_CLIENT_AUTH is not checked at startup.)
FilesAndVersion == /\ cfg.TLSCertFile # Empty /\ cfg.TLSKeyFile # Empty
                   /\ Parses(minVersionAliases, cfg.TLSMinVersion)

ValidTLS == /\ cfg.TLSCertFile # Empty /\ cfg.TLSKeyFile # Empty
            /\ TLSParses

ValidateTLS ==
    Check("tls", cfg.TLSEnabled => ValidTLS, "logging", cfg)

-----------------------------------------------------------------------------
\* The consumers. Equality with a literal is exact: form and all.
Consume(here, next, newServer) == /\ pc = here /\ pc' = next
                                  /\ server' = newServer
                                  /\ UNCHANGED <<env, file, cfg>>

\* setupLogging: a level it does not know becomes info.
setupLogging ==
    Consume("logging", "interceptors", [server EXCEPT !.level =
        IF cfg.LogLevel \in {Exact(l) : l \in logLevels}
        THEN cfg.LogLevel.word ELSE "fallback"])

\* The validator buildUnaryInterceptors asks the library for.
validatorBuilder ==
    IF cfg.TokenType = Exact("opaque")
    THEN IF cfg.AuthMethod = Exact("private_key_jwt")
         THEN <<"privateKey", cfg.URL, cfg.ClientID, cfg.PrivateKey, cfg.Algorithm>>
         ELSE <<"clientSecret", cfg.URL, cfg.ClientID, cfg.ClientSecret>>
    ELSE IF cfg.JWKSURL # Empty THEN <<"jwks", cfg.JWKSURL>>
    ELSE <<"issuer">>

buildAuthorizationPolicy ==
    [roles  |-> cfg.RequiredRoles,
     scopes |-> cfg.RequiredScopes,
     rolesMatch  |-> IF cfg.RoleMatchMode = Exact("all") THEN "all" ELSE "any",
     scopesMatch |-> IF cfg.ScopeMatchMode = Exact("all") THEN "all" ELSE "any",
     rolePaths   |-> cfg.RoleClaimPaths,
     scopePaths  |-> cfg.ScopeClaimPaths]

\* The library builds the validator, or fails for a reason of its own.
buildUnaryInterceptors ==
    \/ Consume("interceptors", "options",
            [server EXCEPT
               !.validator = IF cfg.Enabled THEN validatorBuilder ELSE <<"none">>,
               !.policy = IF cfg.Enabled THEN buildAuthorizationPolicy ELSE "none"])
    \/ pc = "interceptors" /\ cfg.Enabled
       /\ Consume("interceptors", "failedValidator", server)

SizeOrFallback(n) == IF n <= 0 THEN fallbackMessageSize ELSE n

\* buildGRPCServerOptions; the library loads the certificates, or fails.
buildGRPCServerOptions ==
    /\ pc = "options"
    /\ LET sized == [server EXCEPT !.recv = SizeOrFallback(cfg.MaxRecv),
                                   !.send = SizeOrFallback(cfg.MaxSend)]
       IN IF ~ cfg.TLSEnabled
          THEN Consume("options", "serving", [sized EXCEPT !.tls = <<"plain">>])
          ELSE IF ~ TLSParses THEN Consume("options", "failedSetting", server)
          ELSE \/ Consume("options", "serving", [sized EXCEPT
                     !.tls = <<Parsed(clientAuthAliases, cfg.TLSClientAuth),
                               Parsed(minVersionAliases, cfg.TLSMinVersion)>>])
               \/ Consume("options", "failedTLS", server)

Ended == /\ pc \in {"rejected", "serving", "failedValidator", "failedTLS"}
         /\ UNCHANGED vars

Next == \/ Load
        \/ ValidateSizes \/ ValidateAuthz \/ ValidateAuth
        \/ ValidateIntrospection \/ ValidateTLS
        \/ setupLogging \/ buildUnaryInterceptors \/ buildGRPCServerOptions
        \/ Ended

Spec == Init /\ [][Next]_vars

-----------------------------------------------------------------------------
Validating == {"sizes", "authz", "auth", "introspection", "tls"}
Accepted == {"logging", "interceptors", "options", "serving",
             "failedValidator", "failedTLS", "failedSetting"}

\* The numbers, the switches, and the texts and lists that Validate rewrites for
\* authentication and authorization keep their types until the consumers read
\* them, and a message size is never zero again once Validate has seen it. The
\* texts nothing rewrites, and the claim paths, are not typed here.
TypeOK ==
    /\ pc \in {"load", "rejected"} \cup Validating \cup Accepted
    /\ pc \in Validating \cup Accepted =>
        /\ {cfg.Port, cfg.MetricsPort, cfg.MaxRecv, cfg.MaxSend} \subseteq Int
        /\ pc # "sizes" => cfg.MaxRecv > 0 /\ cfg.MaxSend > 0
        /\ {cfg.TLSEnabled, cfg.Enabled} \subseteq BOOLEAN
        /\ {cfg.TokenType, cfg.AuthMethod, cfg.PrivateKey, cfg.PrivateKeyFile,
            cfg.Algorithm, cfg.RoleMatchMode, cfg.ScopeMatchMode} \subseteq Strings
        /\ {cfg.RequiredRoles, cfg.RequiredScopes} \subseteq Seq(Strings)
    /\ server.recv \in Nat /\ server.send \in Nat

\* What the environment asks for, read from env alone.
Set(v) == v = <<TRUE>>
AsksOpaque == Set(env.Enabled) /\ env.TokenType.word = "opaque"
AsksPrivateKey == AsksOpaque /\ env.AuthMethod.word = "private_key_jwt"
Blank(s) == s.word = ""

\* The rules Load enforces, read from env alone. Those on ports, log level, key
\* and TLS are as docs/architecture.md:375-383 states them. The document asks
\* for a valid token type and introspection method of every environment (378,
\* 380, 385); the code only where it reads them, with authentication on and with
\* opaque tokens (config.go:156-177), and so do these rules. The rules on match
\* modes and message sizes are in the code alone (config.go:111-122, 139-149).
ListeningRules ==
    /\ \A p \in {env.Port, env.MetricsPort} : p = <<>> \/ p[1] \in Ports
    /\ \A n \in {env.MaxRecv, env.MaxSend} : n = <<>> \/ n[1] >= 0
    /\ env.LogLevel.word \in logLevels \cup {""} /\ env.LogLevel.form = {}
MatchModeRules ==
    {env.RoleMatchMode.word, env.ScopeMatchMode.word} \subseteq {"", "any", "all"}
AuthRules ==
    Set(env.Enabled) => /\ Empty \notin {env.Issuer, env.Audience}
                        /\ env.TokenType.word \in {"", "jwt", "opaque"}
IntrospectionRules ==
    /\ AsksOpaque =>
        /\ env.URL # Empty
        /\ env.AuthMethod.word \in {"", "client_secret_basic", "private_key_jwt"}
        /\ ~ AsksPrivateKey => Empty \notin {env.ClientID, env.ClientSecret}
    /\ AsksPrivateKey =>
        /\ Blank(env.PrivateKey) <=> ~ Blank(env.PrivateKeyFile)
        /\ Blank(env.PrivateKey) => file # <<>> /\ ~ Blank(file[1])
        /\ env.Algorithm.word \in algorithms
TLSRules ==
    Set(env.TLSEnabled) =>
        /\ Empty \notin {env.TLSCertFile, env.TLSKeyFile}
        /\ Parses(clientAuthAliases, env.TLSClientAuth)
        /\ Parses(minVersionAliases, env.TLSMinVersion)
Rules == /\ ListeningRules /\ MatchModeRules /\ AuthRules
         /\ IntrospectionRules /\ TLSRules

\* The process goes on past Load exactly when the environment keeps the rules:
\* no order of the early returns, and no field rewritten before it is checked
\* (config.go:107-227), accepts or rejects anything else.
RulesDecide == /\ pc \in Accepted => Rules
               /\ pc = "rejected" => ~ Rules

\* What main.go's exact comparisons choose is what the environment asked for,
\* however its values are spelled (main.go:214-236, 280-299): a mode or token
\* type that passed Validate is never taken for another one. The key of the
\* validator comes from exactly one place, the environment or the file, and is
\* not blank (config.go:188-205).
ServedAsSpelled ==
    pc = "serving" /\ Set(env.Enabled) =>
        /\ server.validator[1] = IF AsksPrivateKey THEN "privateKey"
                                 ELSE IF AsksOpaque THEN "clientSecret"
                                 ELSE IF env.JWKSURL # Empty THEN "jwks"
                                 ELSE "issuer"
        /\ AsksPrivateKey =>
            LET key == server.validator[4]
            IN /\ ~ Blank(key) /\ "spaces" \notin key.form
               /\ Blank(env.PrivateKey) \/ Blank(env.PrivateKeyFile)
               /\ key.word = IF Blank(env.PrivateKeyFile) THEN env.PrivateKey.word
                             ELSE file[1].word
        /\ server.policy.rolesMatch = "all" <=> env.RoleMatchMode.word = "all"
        /\ server.policy.scopesMatch = "all" <=> env.ScopeMatchMode.word = "all"

\* kept names every non-blank entry of the list as often as it is listed.
KeptAsListed(kept, listed) ==
    LET name(j) == [listed[j] EXCEPT !.form = @ \ {"spaces"}]
        named   == {j \in DOMAIN listed : ~ Blank(listed[j])}
    IN \A s \in {kept[i] : i \in DOMAIN kept} \cup {name(j) : j \in DOMAIN listed} :
          Cardinality({i \in DOMAIN kept : kept[i] = s})
            = Cardinality({j \in named : name(j) = s})
\* The roles and scopes that are required are the non-blank entries of the
\* lists, without their spaces, each as many times as it is listed, and no other
\* (config.go:320-343, applied by Load and again by Validate).
RequiredAsListed ==
    pc = "serving" /\ Set(env.Enabled) =>
        /\ KeptAsListed(server.policy["roles"], env.RequiredRoles)
        /\ KeptAsListed(server.policy["scopes"], env.RequiredScopes)

\* Validate leaves nothing for a consumer to reject or to guess: no TLS
\* setting fails in buildGRPCServerOptions, the log level is known and the
\* message limits are the configured ones (main.go:112-131, 309-334). A limit
\* nobody chose takes the largest bitstream the suite accepts, with the 64 bytes
\* its message may add, which the 10 MiB of the fallback would not.
NothingLeftToGuess ==
    /\ pc # "failedSetting" /\ server.level # "fallback"
    /\ pc = "serving" =>
        /\ server.recv = cfg.MaxRecv /\ server.send = cfg.MaxSend
        /\ server.tls[1] # "plain" <=> Set(env.TLSEnabled)
        /\ env.MaxRecv \in {<<>>, <<0>>} => server.recv >= MaxBits \div 8 + 64
=============================================================================
