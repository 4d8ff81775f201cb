------------------------------ MODULE Startup ------------------------------
(***************************************************************************)
(* main.rs, cli.rs, config.rs and the address parsers of net.rs: from the   *)
(* command line, the environment and the configuration file to a server, a  *)
(* client, or an error.                                                     *)
(*                                                                          *)
(* A text is abstracted to its form and the parts the parsers look at: its  *)
(* word (a host, a flag, free text), up to two numbers, and what it is      *)
(* wrapped in: spaces, a pair of quotes, or (in a file only) one quote that  *)
(* is never closed.                                                         *)
(***************************************************************************)
EXTENDS Integers, Sequences, FiniteSets

CONSTANTS
    CommandLines,   \* the arguments a user may give
    Environments,   \* the TUNLET_ variables
    FileSystems     \* path -> contents

VARIABLES
    args, environment, files,          \* the inputs
    stage,                             \* "args", "file", "merge", "config", "done"
    index, mode, config, config_explicit, cli,    \* locals of cli::parse
    line, file,                        \* locals of parse_file
    merged,
    outcome
startupVars == <<args, environment, files, stage, index, mode, config,
                 config_explicit, cli, line, file, merged, outcome>>

-----------------------------------------------------------------------------
(* Texts *)

Text(form, word, a, b) == [form |-> form, word |-> word, a |-> a, b |-> b, wrap |-> "none"]
Absent == Text("absent", "", 0, 0)
Empty == Text("empty", "", 0, 0)
Word(w) == Text("word", w, 0, 0)
Number(n) == Text("number", "", n, 0)
ColonPort(n) == Text("colon_port", "", n, 0)           \* :PORT
HostPort(h, n) == Text("host_port", h, n, 0)           \* HOST:PORT, [ADDR]:PORT
PortRange(a, b) == Text("range", "", a, b)             \* MIN-MAX
IpLiteral == Text("ip", "", 0, 0)

Bare(v) == v.wrap = "none"

\* trim and unquote, as parse_file applies them to a value.
Spaced(v) == [v EXCEPT !.wrap = "spaces"]
Quoted(v) == [v EXCEPT !.wrap = "quotes"]
Unclosed(v) == [v EXCEPT !.wrap = "unclosed"]
Terminated(v) == v.wrap # "unclosed"
unquote(v) == [v EXCEPT !.wrap = "none"]

-----------------------------------------------------------------------------
(* net.rs: what each parser accepts *)

parse_port(n) == n \in 0 .. 65535

\* A host is an address literal, a name or missing.
parse_listen(v) ==
    /\ Bare(v)
    /\ v.form = "colon_port" \/ (v.form = "host_port" /\ v.word = "address")
    /\ parse_port(v.a) /\ v.a >= 1024

parse_bind_ip(v) == Bare(v) /\ v.form = "ip"

parse_server(v) ==
    /\ Bare(v)
    /\ v.form = "host_port" /\ v.word # ""
    /\ parse_port(v.a) /\ v.a >= 1024

parse_target(v) ==
    /\ Bare(v)
    /\ v.form = "colon_port" \/ (v.form = "host_port" /\ v.word # "")
    /\ parse_port(v.a) /\ v.a # 0

\* The bounds are trimmed.
parse_port_range(v) ==
    /\ v.wrap \in {"none", "spaces"}
    /\ v.form = "range"
    /\ parse_port(v.a) /\ parse_port(v.b)
    /\ v.a >= 1024 /\ v.a <= v.b

-----------------------------------------------------------------------------
(* config.rs: the typed settings *)

NAMES == {"KEY", "LISTEN", "DATA_BIND", "ALLOWED_PORTS", "MAX_CONNECTIONS",
          "SERVER", "REMOTE_PORT", "TARGET", "LOG_LEVEL", "QUIET"}
NoSettings == [name \in NAMES |-> Absent]

get(raw, name, default) == IF raw[name] = Absent THEN default ELSE raw[name]

required(raw, name) == raw[name] \notin {Absent, Empty}

OneOf(v, words) == Bare(v) /\ v.form = "word" /\ v.word \in words
quiet(raw) == OneOf(get(raw, "QUIET", Word("false")), {"true", "false"})
log_level(raw) == OneOf(get(raw, "LOG_LEVEL", Word("info")), {"error", "info", "debug"})

\* Mutant: the lower bound is not looked at.
max_connections_zero(v) == Bare(v) /\ v.form = "number" /\ v.a \in Nat /\ v.a <= 65535

max_connections_ok(v) ==
    Bare(v) /\ v.form = "number" /\ v.a \in Nat \ {0} /\ v.a <= 65535

\* The configuration a server is started with, or the first setting refused.
server(raw) ==
    /\ required(raw, "KEY")
    /\ parse_listen(get(raw, "LISTEN", ColonPort(4000)))
    /\ parse_bind_ip(get(raw, "DATA_BIND", IpLiteral))
    /\ parse_port_range(get(raw, "ALLOWED_PORTS", PortRange(10000, 65535)))
    /\ max_connections_ok(get(raw, "MAX_CONNECTIONS", Number(256)))
    /\ log_level(raw)
    /\ quiet(raw)

remote_port_ok(v) == Bare(v) /\ v.form = "number" /\ parse_port(v.a) /\ v.a >= 1024

expose(raw) ==
    /\ required(raw, "KEY")
    /\ required(raw, "SERVER") /\ parse_server(raw["SERVER"])
    /\ required(raw, "TARGET") /\ parse_target(raw["TARGET"])
    /\ raw["REMOTE_PORT"] # Absent => remote_port_ok(raw["REMOTE_PORT"])
    /\ log_level(raw)
    /\ quiet(raw)

-----------------------------------------------------------------------------
(* cli.rs: parse, one action for each arm of the loop *)

\* An argument is a flag with or without =value, a subcommand, or another text,
\* whose flag is "".
Arg(flag, inline, value) == [flag |-> flag, inline |-> inline, value |-> value]
Flag(flag) == Arg(flag, FALSE, Absent)
Inline(flag, v) == Arg(flag, TRUE, v)
Plain(v) == Arg("", FALSE, v)

\* The same argument where a value is expected.
Whole(arg) == IF arg.flag = "" THEN arg.value ELSE Word(arg.flag)

VALUE_FLAGS ==
    [f \in {"--key", "--listen", "--data-bind", "--allowed-ports", "--max-connections",
            "--server", "--remote-port", "--target", "--log-level"} |->
        CASE f = "--key" -> "KEY"
          [] f = "--listen" -> "LISTEN"
          [] f = "--data-bind" -> "DATA_BIND"
          [] f = "--allowed-ports" -> "ALLOWED_PORTS"
          [] f = "--max-connections" -> "MAX_CONNECTIONS"
          [] f = "--server" -> "SERVER"
          [] f = "--remote-port" -> "REMOTE_PORT"
          [] f = "--target" -> "TARGET"
          [] f = "--log-level" -> "LOG_LEVEL"]
HelpFlags == {"-h", "--help"}
VersionFlags == {"-V", "--version"}
Subcommands == {"server", "expose"}
Dashed == DOMAIN VALUE_FLAGS \cup HelpFlags \cup VersionFlags
              \cup {"--config", "--quiet", "--unknown"}

inputs == <<args, environment, files>>
parsed == <<mode, config, config_explicit, cli>>

At == args[index]
Parsing == stage = "args" /\ index <= Len(args)
Ends(result) ==
    /\ stage' = "done"
    /\ outcome' = result
    /\ UNCHANGED <<inputs, index, parsed, line, file, merged>>

\* These arms match the whole argument: with =value it is a flag like others.
ParseHelp == Parsing /\ ~At.inline /\ At.flag \in HelpFlags /\ Ends("help")
ParseVersion == Parsing /\ ~At.inline /\ At.flag \in VersionFlags /\ Ends("version")

ParseSubcommand ==
    /\ Parsing /\ ~At.inline /\ At.flag \in Subcommands
    /\ \/ mode # "none" /\ Ends("cli_error")
       \/ /\ mode = "none"
          /\ mode' = At.flag
          /\ index' = index + 1
          /\ UNCHANGED <<inputs, stage, config, config_explicit, cli, line, file, merged,
                         outcome>>

IsFlag ==
    /\ Parsing
    /\ At.flag \in Dashed
    /\ At.inline \/ At.flag \notin HelpFlags \cup VersionFlags

ParseUnexpected ==
    /\ Parsing
    /\ At.flag \notin Dashed
    /\ At.inline \/ At.flag \notin Subcommands
    /\ Ends("cli_error")

\* The value of the flag at index and how many arguments it takes up.
HasValue == At.inline \/ index < Len(args)
FlagValue == IF At.inline THEN At.value ELSE Whole(args[index + 1])
Consumed == IF At.inline THEN 1 ELSE 2

ParseConfig ==
    /\ IsFlag /\ At.flag = "--config"
    /\ \/ ~HasValue /\ Ends("cli_error")
       \/ HasValue /\ FlagValue = Empty /\ Ends("cli_error")
       \/ /\ HasValue /\ FlagValue # Empty
          /\ config' = FlagValue
          /\ config_explicit' = TRUE
          /\ index' = index + Consumed
          /\ UNCHANGED <<inputs, stage, mode, cli, line, file, merged, outcome>>

\* Flags other than --config follow the subcommand.
ParseMisplaced == IsFlag /\ At.flag # "--config" /\ mode = "none" /\ Ends("cli_error")

Set(name, v) == cli' = [cli EXCEPT ![name] = v]

\* --quiet takes its value inline only.
ParseQuiet ==
    /\ IsFlag /\ At.flag = "--quiet" /\ mode # "none"
    /\ LET v == IF At.inline THEN At.value ELSE Word("true")
       IN  \/ ~OneOf(v, {"true", "false"}) /\ Ends("cli_error")
           \/ /\ OneOf(v, {"true", "false"})
              /\ Set("QUIET", v)
              /\ index' = index + 1
              /\ UNCHANGED <<inputs, stage, mode, config, config_explicit, line, file,
                             merged, outcome>>

ParseUnrecognized ==
    /\ IsFlag /\ mode # "none"
    /\ At.flag \notin DOMAIN VALUE_FLAGS \cup {"--config", "--quiet"}
    /\ Ends("cli_error")

\* The next argument is the value, whatever it looks like; the last duplicate
\* takes precedence.
ParseValue ==
    /\ IsFlag /\ mode # "none" /\ At.flag \in DOMAIN VALUE_FLAGS
    /\ \/ ~HasValue /\ Ends("cli_error")
       \/ /\ HasValue
          /\ Set(VALUE_FLAGS[At.flag], FlagValue)
          /\ index' = index + Consumed
          /\ UNCHANGED <<inputs, stage, mode, config, config_explicit, line, file,
                         merged, outcome>>

ParseEnds ==
    /\ stage = "args" /\ index > Len(args)
    /\ \/ mode = "none" /\ Ends("cli_error")
       \/ /\ mode # "none"
          /\ stage' = "file"
          /\ UNCHANGED <<inputs, index, parsed, line, file, merged, outcome>>

-----------------------------------------------------------------------------
(* config.rs: parse_file and merge *)

\* A file is missing, unreadable (not UTF-8 included) or a sequence of lines.
Line(kind, name, value) == [kind |-> kind, name |-> name, value |-> value]
Contents(kind, lines) == [kind |-> kind, lines |-> lines]
Missing == Contents("missing", <<>>)

Opened == IF config \in DOMAIN files THEN files[config] ELSE Missing

\* Mutant: a file the user named may be missing too.
OpenFileIfAny ==
    /\ stage = "file" /\ line = 0
    /\ \/ Opened.kind = "unreadable" /\ Ends("config_error")
       \/ /\ Opened.kind # "unreadable"
          /\ line' = 1
          /\ UNCHANGED <<inputs, stage, index, parsed, file, merged, outcome>>

OpenFile ==
    /\ stage = "file" /\ line = 0
    /\ \/ Opened.kind = "unreadable" /\ Ends("config_error")
       \/ Opened.kind = "missing" /\ config_explicit /\ Ends("config_error")
       \/ /\ Opened.kind = "text" \/ (Opened.kind = "missing" /\ ~config_explicit)
          /\ line' = 1
          /\ UNCHANGED <<inputs, stage, index, parsed, file, merged, outcome>>

GoodLine(l) == l.name \in NAMES /\ Terminated(l.value)

ReadLine ==
    /\ stage = "file" /\ line \in 1 .. Len(Opened.lines)
    /\ LET l == Opened.lines[line]
       IN  \/ /\ l.kind = "bare" \/ (l.kind = "setting" /\ ~GoodLine(l))
              /\ Ends("config_error")
           \/ /\ l.kind = "blank" \/ (l.kind = "setting" /\ GoodLine(l))
              /\ file' = IF l.kind = "blank" THEN file
                         ELSE [file EXCEPT ![l.name] = unquote(l.value)]
              /\ line' = line + 1
              /\ UNCHANGED <<inputs, stage, index, parsed, merged, outcome>>

FileEnds ==
    /\ stage = "file" /\ line > Len(Opened.lines)
    /\ stage' = "merge"
    /\ UNCHANGED <<inputs, index, parsed, line, file, merged, outcome>>

\* Mutant: the environment is laid over the flags.
merge_environment_last(f, e, c) ==
    [name \in NAMES |-> get(e, name, get(c, name, f[name]))]

merge(f, e, c) == [name \in NAMES |-> get(c, name, get(e, name, f[name]))]

\* env_config asks for each known name, so other variables are never seen.
env_config == [name \in NAMES |->
                  IF name \in DOMAIN environment THEN environment[name] ELSE Absent]

Resolve ==
    /\ stage = "merge"
    /\ merged' = merge(file, env_config, cli)
    /\ stage' = "config"
    /\ UNCHANGED <<inputs, index, parsed, line, file, outcome>>

\* Only the settings of the chosen mode are looked at.
Start ==
    /\ stage = "config"
    /\ LET ok == IF mode = "server" THEN server(merged) ELSE expose(merged)
       IN  Ends(IF ok THEN mode ELSE "config_error")

\* Arguments and lines are sequences; a value that is there is a text, be it an
\* empty one.
ASSUME StartupAssumption ==
    /\ \A a \in CommandLines :
          /\ Len(a) \in Nat /\ DOMAIN a = 1 .. Len(a)
          /\ \A k \in DOMAIN a : a[k].inline \/ a[k].flag = "" => a[k].value # Absent
    /\ \A e \in Environments : \A name \in DOMAIN e : e[name] # Absent
    /\ \A f \in FileSystems : \A path \in DOMAIN f :
          Len(f[path].lines) \in Nat /\ DOMAIN f[path].lines = 1 .. Len(f[path].lines)

StartupInit ==
    /\ args \in CommandLines
    /\ environment \in Environments
    /\ files \in FileSystems
    /\ stage = "args"
    /\ index = 1
    /\ mode = "none"
    /\ config = Word("tunlet.cfg")
    /\ config_explicit = FALSE
    /\ cli = NoSettings
    /\ line = 0
    /\ file = NoSettings
    /\ merged = NoSettings
    /\ outcome = "none"

StartupNext ==
    \/ ParseHelp \/ ParseVersion \/ ParseSubcommand \/ ParseUnexpected \/ ParseConfig
    \/ ParseMisplaced \/ ParseQuiet \/ ParseUnrecognized \/ ParseValue \/ ParseEnds
    \/ OpenFile \/ ReadLine \/ FileEnds \/ Resolve \/ Start

-----------------------------------------------------------------------------
(* What the inputs mean, read off them as a whole *)

\* Argument k of a command line is the value of the flag before it.
Takes(arg) == ~arg.inline /\ arg.flag \in DOMAIN VALUE_FLAGS \cup {"--config"}
IsValue(a) ==
    LET value[k \in 0 .. Len(a)] == k > 1 /\ ~value[k - 1] /\ Takes(a[k - 1])
    IN  value
Words(a) == {k \in 1 .. Len(a) : ~IsValue(a)[k]}
ValueAt(a, k) ==
    IF a[k].inline THEN a[k].value
    ELSE IF a[k].flag = "--quiet" THEN Word("true") ELSE Whole(a[k + 1])

FlagsFor(a, name) ==
    {k \in Words(a) : IF name = "QUIET" THEN a[k].flag = "--quiet"
                      ELSE /\ a[k].flag \in DOMAIN VALUE_FLAGS
                           /\ VALUE_FLAGS[a[k].flag] = name}
LinesFor(lines, name) ==
    {k \in DOMAIN lines : lines[k].kind = "setting" /\ lines[k].name = name}
LastOf(S) == CHOOSE k \in S : \A j \in S : j <= k

\* The last flag, then the environment, then the last line of the file.
Effective ==
    [name \in NAMES |->
        IF FlagsFor(args, name) # {} THEN ValueAt(args, LastOf(FlagsFor(args, name)))
        ELSE IF name \in DOMAIN environment THEN environment[name]
        ELSE IF LinesFor(Opened.lines, name) # {}
        THEN unquote(Opened.lines[LastOf(LinesFor(Opened.lines, name))].value)
        ELSE Absent]

\* The command line is one subcommand and flags with their values, all but
\* --config after it; the file can be read and every line of it is good.
Subcommand(a, k) == a[k].flag \in Subcommands /\ ~a[k].inline
FlagFits(a, k, m) ==
    /\ a[k].flag \in DOMAIN VALUE_FLAGS \cup {"--config", "--quiet"}
    /\ k < m => a[k].flag = "--config"
    /\ Takes(a[k]) => k < Len(a)
    /\ a[k].flag = "--config" => ValueAt(a, k) # Empty
    /\ a[k].flag = "--quiet" => OneOf(ValueAt(a, k), {"true", "false"})
CommandLineOK(a) ==
    \E m \in Words(a) : Subcommand(a, m) /\ \A k \in Words(a) \ {m} : FlagFits(a, k, m)
FileThere == Opened.kind = "text" \/ (Opened.kind = "missing" /\ ~config_explicit)
LineOK(l) == l.kind = "blank" \/ (l.kind = "setting" /\ GoodLine(l))
FileOK == FileThere /\ \A k \in DOMAIN Opened.lines : LineOK(Opened.lines[k])

-----------------------------------------------------------------------------
(* Properties *)

\* "Order of precedence: flags (highest), environment variables, file, defaults
\* (lowest)" (config.rs): what is merged is, name by name, the last flag given,
\* else the variable, else the last line of the file, whatever was repeated
\* and whatever a flag swallowed as its value.
Precedence == stage = "config" => merged = Effective

\* A process starts exactly when the command line and the file are well formed
\* and the effective settings of its own mode are valid: no stray value of
\* the other mode stops it ("accepted and ignored", config.rs), and no error in
\* a layer that is overridden later is overlooked.
Valid == IF mode = "server" THEN server(Effective) ELSE expose(Effective)
StartsExactly ==
    stage = "done" =>
        (outcome \in Subcommands <=> CommandLineOK(args) /\ FileOK /\ Valid)

=============================================================================
