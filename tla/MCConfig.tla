------------------------------- MODULE MCConfig -------------------------------
(* Environments for TLC: four groups of variables, each of them in every     *)
(* combination of its boundary values while the others are left unset or     *)
(* plainly valid, so that every rule is met and broken alone and with the    *)
(* rules it interacts with.                                                  *)
EXTENDS Config

MCWords == STRING

\* The spellings of a word; the empty word has no letters to change.
Forms(w) == IF w = "" THEN SUBSET {"spaces"} ELSE SUBSET {"case", "spaces"}
Variants(w) == {Spelling(w, f) : f \in Forms(w)}
NoList == <<Empty>>

Unset ==
    [Port |-> <<>>, MaxRecv |-> <<>>, MaxSend |-> <<>>, MetricsPort |-> <<>>,
     TLSEnabled |-> <<>>, TLSCertFile |-> Empty, TLSKeyFile |-> Empty,
     TLSClientAuth |-> Empty, TLSMinVersion |-> Empty,
     LogLevel |-> Empty, Enabled |-> <<>>, Issuer |-> Empty, Audience |-> Empty,
     JWKSURL |-> Empty, TokenType |-> Empty, URL |-> Empty, AuthMethod |-> Empty,
     ClientID |-> Empty, ClientSecret |-> Empty, PrivateKey |-> Empty,
     PrivateKeyFile |-> Empty, Algorithm |-> Empty,
     RequiredRoles |-> NoList, RequiredScopes |-> NoList,
     RoleMatchMode |-> Empty, ScopeMatchMode |-> Empty,
     RoleClaimPaths |-> NoList, ScopeClaimPaths |-> NoList]

WithAuth == [Unset EXCEPT !.Enabled = <<TRUE>>, !.Issuer = Exact("issuer"),
                          !.Audience = Exact("audience")]

Listening ==
    {[Unset EXCEPT !.Port = p, !.MetricsPort = m, !.MaxRecv = r, !.MaxSend = s,
                   !.LogLevel = l] :
        p \in {<<>>, <<0>>, <<1>>, <<65535>>, <<65536>>},
        m \in {<<>>, <<0>>, <<65536>>},
        r \in {<<>>, <<-1>>, <<0>>, <<4>>}, s \in {<<>>, <<-1>>, <<0>>},
        l \in Variants("") \cup Variants("warn") \cup {Exact("trace")}}

Authorized ==
    {[WithAuth EXCEPT !.RoleMatchMode = rm, !.ScopeMatchMode = sm,
                      !.RequiredRoles = rs, !.RequiredScopes = ss] :
        rm \in Variants("all") \cup {Empty, Exact("any"), Exact("one")},
        sm \in Variants("all") \cup {Empty, Exact("any"), Exact("one")},
        rs \in {NoList, <<Spelling("admin", {"spaces"}), Empty, Exact("user"),
                          Exact("admin")>>},
        ss \in {NoList, <<Spelling("", {"spaces"}), Spelling("read", {"case"})>>}}

Issued ==
    {[Unset EXCEPT !.Enabled = e, !.Issuer = i, !.Audience = a, !.JWKSURL = j,
                   !.TokenType = t] :
        e \in {<<>>, <<FALSE>>, <<TRUE>>}, i \in {Empty, Exact("issuer")},
        a \in {Empty, Exact("audience")}, j \in {Empty, Exact("keys")},
        t \in Variants("") \cup Variants("jwt") \cup {Exact("other")}}

Introspected ==
    {[WithAuth EXCEPT !.TokenType = t, !.URL = u, !.AuthMethod = m,
                      !.ClientID = c, !.ClientSecret = s, !.PrivateKey = k,
                      !.PrivateKeyFile = f, !.Algorithm = al] :
        t \in {Exact("opaque"), Spelling("opaque", {"case", "spaces"})},
        u \in {Empty, Exact("url")},
        m \in {Empty, Exact("client_secret_basic"), Exact("private_key_jwt"),
               Spelling("private_key_jwt", {"case"}), Exact("other")},
        c \in {Empty, Exact("id")}, s \in {Empty, Exact("secret")},
        k \in {Empty, Spelling("", {"spaces"}), Spelling("key", {"spaces"})},
        f \in {Empty, Spelling("", {"spaces"}), Exact("path")},
        al \in {Empty, Spelling("ES256", {"case"}), Exact("PS256")}}

Encrypted ==
    {[Unset EXCEPT !.TLSEnabled = e, !.TLSCertFile = c, !.TLSKeyFile = k,
                   !.TLSClientAuth = a, !.TLSMinVersion = v] :
        e \in {<<>>, <<TRUE>>}, c \in {Empty, Exact("cert")},
        k \in {Empty, Exact("key")},
        a \in Variants("mtls") \cup {Exact("bogus")}
              \cup {Exact(w) : w \in UNION {clientAuthAliases[t] :
                                              t \in DOMAIN clientAuthAliases}},
        v \in {Empty, Exact("1.1"), Spelling("tls1.3", {"case", "spaces"})}}

MCEnvs == Listening \cup Authorized \cup Issued \cup Introspected \cup Encrypted

MCFiles == {<<>>, <<Spelling("", {"spaces"})>>, <<Spelling("pem", {"spaces"})>>}
=============================================================================
