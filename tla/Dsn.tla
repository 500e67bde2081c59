-------------------------------- MODULE Dsn ---------------------------------
(***************************************************************************)
(* The data source name: splitting it into segments, unquoting the values, *)
(* applying the options in the order they come, and what is left to log in *)
(* with (config.go).                                                       *)
(***************************************************************************)
EXTENDS Naturals, Sequences, SequencesExt

BadDsnValue == <<"error">>
BadDsn == << BadDsnValue >>

-----------------------------------------------------------------------------
(* Scanning.  Characters are "a", "=" and the four special ones; a key is    *)
(* one character here.                                                       *)

Semicolon == "semicolon"
Backslash == "backslash"
Quotes == {"double", "single"}
NoQuote == "none"

NewScan == [parts |-> <<>>, current |-> <<>>, quote |-> NoQuote, escaped |-> FALSE]

(* Mutation: a backslash does not protect a quote.                           *)
ScanCharNoEscape(s, ch) ==
    LET keep == [s EXCEPT !.current = Append(@, ch)] IN
    CASE ch \in Quotes -> [keep EXCEPT !.quote = CASE s.quote = NoQuote -> ch
                                                   [] s.quote = ch -> NoQuote
                                                   [] OTHER -> s.quote]
      [] ch = Semicolon /\ s.quote = NoQuote -> [s EXCEPT !.parts = Append(@, s.current), !.current = <<>>]
      [] OTHER -> keep

(* The loop body of splitDSNSegments.                                        *)
ScanChar(s, ch) ==
    LET keep == [s EXCEPT !.current = Append(@, ch)] IN
    CASE s.escaped -> [keep EXCEPT !.escaped = FALSE]
      [] ~s.escaped /\ ch = Backslash -> [keep EXCEPT !.escaped = s.quote # NoQuote]
      [] ~s.escaped /\ ch \in Quotes ->
           [keep EXCEPT !.quote = CASE s.quote = NoQuote -> ch
                                    [] s.quote = ch -> NoQuote
                                    [] OTHER -> s.quote]
      [] ~s.escaped /\ ch = Semicolon /\ s.quote = NoQuote ->
           [s EXCEPT !.parts = Append(@, s.current), !.current = <<>>]
      [] OTHER -> keep

(* splitDSNSegments                                                          *)
SplitDSNSegments(dsn) ==
    LET s == FoldLeft(ScanChar, NewScan, dsn)
    IN  IF s.quote # NoQuote \/ s.escaped THEN BadDsn ELSE Append(s.parts, s.current)

(* The loop body of unquoteDSNValue: a backslash goes with a quote of this   *)
(* kind or another backslash, and stays in front of anything else.           *)
UnquoteChar(s, ch) ==
    CASE s.escaped -> [s EXCEPT !.escaped = FALSE,
                                !.current = @ \o IF ch \in {s.quote, Backslash} THEN <<ch>>
                                                 ELSE <<Backslash, ch>>]
      [] ~s.escaped /\ ch = Backslash -> [s EXCEPT !.escaped = TRUE]
      [] OTHER -> [s EXCEPT !.current = Append(@, ch)]

(* unquoteDSNValue                                                           *)
UnquoteDSNValue(value) ==
    LET n == Len(value) IN
    CASE n < 2 -> value
      [] n >= 2 /\ value[1] \in Quotes /\ value[n] = value[1] ->
           LET s == FoldLeft(UnquoteChar, [NewScan EXCEPT !.quote = value[1]],
                             SubSeq(value, 2, n - 1))
           IN  IF s.escaped THEN BadDsnValue ELSE s.current
      [] OTHER -> IF value[1] \in Quotes \/ value[n] \in Quotes THEN BadDsnValue ELSE value

(* An empty segment is skipped.                                              *)
KeepSegment(used, part) == IF part = <<>> THEN used ELSE Append(used, part)

(* parseKeyValueDSN up to the options: keys and values.                      *)
KeyValues(dsn) ==
    LET parts == SplitDSNSegments(dsn)
        pair(part) == [key |-> part[1], value |-> UnquoteDSNValue(SubSeq(part, 3, Len(part)))]
        used == IF parts = BadDsn THEN <<>> ELSE FoldLeft(KeepSegment, <<>>, parts)
    IN  IF \/ parts = BadDsn
           \/ \E p \in ToSet(used) : Len(p) < 2 \/ p[2] # "="
           \/ \E p \in ToSet(used) : UnquoteDSNValue(SubSeq(p, 3, Len(p))) = BadDsnValue
        THEN BadDsn
        ELSE [i \in DOMAIN used |-> pair(used[i])]

(* How a value is quoted, as the comment of ParseDSN says.                   *)
Quoted(value, quote) ==
    <<quote>> \o FlattenSeq([i \in DOMAIN value |->
                    IF value[i] \in {quote, Backslash} THEN <<Backslash, value[i]>>
                    ELSE <<value[i]>>]) \o <<quote>>

(* A quoted value comes out as it was put in, with semicolons, backslashes   *)
(* and both quotes in it, and the next segment is read as its own            *)
(* (splitDSNSegments, unquoteDSNValue).                                      *)
QuotedSurvives(value, quote) ==
    KeyValues(<<"password", "=">> \o Quoted(value, quote) \o <<Semicolon, "user", "=", "a">>) =
        << [key |-> "password", value |-> value], [key |-> "user", value |-> <<"a">>] >>

-----------------------------------------------------------------------------
(* Options.  A value stands for its spelling; keyFile stands for             *)
(* auth_key_file and auth_key_pem, and the option "invalid" for one whose    *)
(* value does not parse.                                                     *)

ConfigFields == {"host", "port", "user", "proxy", "password", "database", "mode", "keyFile"}
EmptyConfig == [f \in ConfigFields |-> IF f = "port" THEN 0 ELSE ""]
BadConfig == [EmptyConfig EXCEPT !.host = "error"]
DefaultPort == 5656

(* parseUserName: only sys may act for another user.                         *)
ProxyOf(user) == IF user.login = "sys" /\ user.proxy # "sys" THEN user.proxy ELSE ""

(* Mutation: a user without a proxy takes back the proxy an earlier option   *)
(* gave.                                                                     *)
ApplyPlainOptionResets(cfg, option) ==
    CASE option.key = "user" -> [cfg EXCEPT !.user = option.value.login,
                                            !.proxy = ProxyOf(option.value)]
      [] OTHER -> [cfg EXCEPT ![option.key] = option.value]

(* applyDSNOption but for the server.                                        *)
ApplyPlainOption(cfg, option) ==
    CASE option.key = "user" ->
           [cfg EXCEPT !.user = option.value.login,
                       !.proxy = IF ProxyOf(option.value) # "" THEN ProxyOf(option.value) ELSE @]
      [] OTHER -> [cfg EXCEPT ![option.key] = option.value]

(* A server value is its parts (the host, and the port, user, password and   *)
(* database that it has: a user that is not empty, and taken as it is) and   *)
(* the query options of a URL.  applyServerValue up to the query:            *)
ApplyParts(cfg, parts) == [f \in ConfigFields |-> IF f \in DOMAIN parts THEN parts[f] ELSE cfg[f]]

(* A query option: an unknown one is skipped.  A server in a query has no    *)
(* query of its own here.                                                    *)
ApplyQueryOption(cfg, option) ==
    CASE option.key = "as" -> [cfg EXCEPT !.proxy = option.value]
      [] option.key = "unknown" -> cfg
      [] option.key = "server" -> ApplyParts(cfg, option.value.parts)
      [] OTHER -> ApplyPlainOption(cfg, option)

(* applyServerValue: host, host:port or a URL, whose query is read in the    *)
(* random order of a map.                                                    *)
ApplyServerValue(cfg, server) ==
    FoldLeft(ApplyQueryOption, ApplyParts(cfg, server.parts), server.query)

(* applyDSNOption                                                            *)
ApplyDSNOption(cfg, option) ==
    IF option.key = "server" THEN ApplyServerValue(cfg, option.value)
    ELSE ApplyPlainOption(cfg, option)

(* normalize: defaults, a key means a challenge, and the name to log in as.  *)
Normalize(cfg) ==
    [host |-> cfg.host,
     port |-> IF cfg.port = 0 THEN DefaultPort ELSE cfg.port,
     user |-> cfg.user, password |-> cfg.password, keyFile |-> cfg.keyFile,
     database |-> IF cfg.database = "" THEN "MACHBASEDB" ELSE cfg.database,
     mode |-> CASE cfg.keyFile # "" -> "CHALLENGE"
                [] cfg.keyFile = "" /\ cfg.mode = "" -> "PASSWORD"
                [] OTHER -> cfg.mode,
     loginName |-> IF cfg.user = "sys" /\ cfg.proxy \notin {"", "sys"}
                   THEN <<"sys", cfg.proxy>> ELSE <<cfg.user>>]

(* validate; loading the key may fail too.                                   *)
Validate(cfg) ==
    /\ cfg.host # "" /\ cfg.port > 0 /\ cfg.user # ""
    /\ cfg.mode = "PASSWORD" => cfg.password # ""
    /\ cfg.mode = "CHALLENGE" => cfg.keyFile # "" /\ cfg.keyFile # "unreadable"

(* What makes a server value or a list of options an error.                  *)
RefusedServer(server) == \E i \in DOMAIN server.query : server.query[i].key = "invalid"
RefusedOption(option) ==
    \/ option.key \in {"unknown", "as", "invalid"}
    \/ option.key = "server" /\ RefusedServer(option.value)

(* parseKeyValueDSN from the options on, and before normalize.               *)
ParseKeyValueDSN(options) ==
    IF \E i \in DOMAIN options : RefusedOption(options[i]) THEN BadConfig
    ELSE FoldLeft(ApplyDSNOption, EmptyConfig, options)

(* ParseDSN before normalize: a server value, or options.                    *)
Collect(dsn) ==
    IF dsn.style = "options" THEN ParseKeyValueDSN(dsn.options)
    ELSE IF RefusedServer(dsn.server) THEN BadConfig
         ELSE ApplyServerValue(EmptyConfig, dsn.server)

(* ParseDSN                                                                  *)
ParseDSN(dsn) == IF Collect(dsn) = BadConfig THEN BadConfig ELSE Normalize(Collect(dsn))

(* What a part, a query option, a server value, an option and a whole data   *)
(* source name give a field: a query comes after the parts of its URL.       *)
PartGives(parts, f) == IF f \in DOMAIN parts THEN {parts[f]} ELSE {}
QueryGives(option, f) ==
    CASE option.key = "server" -> PartGives(option.value.parts, f)
      [] option.key = "as" -> IF f = "proxy" THEN {option.value} ELSE {}
      [] option.key = "user" -> CASE f = "user" -> {option.value.login}
                                  [] f = "proxy" -> {ProxyOf(option.value)} \ {""}
                                  [] OTHER -> {}
      [] OTHER -> IF f = option.key THEN {option.value} ELSE {}
ServerGives(server, f) ==
    LET query == UNION { QueryGives(server.query[i], f) : i \in DOMAIN server.query }
    IN  IF query = {} THEN PartGives(server.parts, f) ELSE query
OptionGives(option, f) ==
    IF option.key = "server" THEN ServerGives(option.value, f) ELSE QueryGives(option, f)
Gives(dsn, f) ==
    IF dsn.style = "options"
    THEN UNION { OptionGives(dsn.options[i], f) : i \in DOMAIN dsn.options }
    ELSE ServerGives(dsn.server, f)

OneOf(given, otherwise) == IF given = {} THEN {otherwise} ELSE given

(* Every field of the configuration is what some option or part gives it,    *)
(* and its default only if none does: options that give no field two values  *)
(* mean the same in every order (a URL is read in the random order of a map),*)
(* and none undoes another.  The name to log in as is another one only for   *)
(* sys, and a configuration that is accepted has the host, the user and the  *)
(* credential of its mode from what was given (applyDSNOption,               *)
(* applyServerValue, normalize, validate).                                   *)
MeansTheSame(dsn) ==
    LET raw == Collect(dsn)
        cfg == ParseDSN(dsn)
    IN  raw # BadConfig =>
          /\ \A f \in ConfigFields : raw[f] \in OneOf(Gives(dsn, f), EmptyConfig[f])
          /\ \/ cfg.loginName[1] \in OneOf(Gives(dsn, "user"), "") /\ Len(cfg.loginName) = 1
             \/ /\ cfg.loginName[1] = "sys" /\ "sys" \in Gives(dsn, "user")
                /\ cfg.loginName[2] \in Gives(dsn, "proxy") \ {"sys"} /\ Len(cfg.loginName) = 2
          /\ Validate(cfg) =>
                /\ cfg.host \in Gives(dsn, "host") /\ cfg.user \in Gives(dsn, "user")
                /\ cfg.mode = "PASSWORD" => cfg.password \in Gives(dsn, "password")
                /\ cfg.mode = "CHALLENGE" => cfg.keyFile \in Gives(dsn, "keyFile")
                /\ cfg.mode # "CHALLENGE" => "" \in OneOf(Gives(dsn, "keyFile"), "")
=============================================================================
