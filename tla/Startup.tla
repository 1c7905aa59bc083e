-------------------------------- MODULE Startup --------------------------------
(* main.rs from its arguments to a served socket, with the precedence rules of *)
(* config.rs, the ceiling of ceiling.rs, the composition of mounts.rs and the  *)
(* refusals `serve_until_error` makes by itself; and a program that uses the   *)
(* library and calls that function with a listener and a ceiling of its own.   *)
(* Ports are left out: an address is what decides who can connect.             *)
EXTENDS Compose

CONSTANTS
    Addrs,      \* the addresses a --bind or web.bind can name
    Loopback,   \* those of them that are loopback
    Localhost,  \* 127.0.0.1, what --port, web.port and the default mean
    Scopes,     \* well-formed `urn:cap:` scopes
    Files,      \* what the config file may hold; see ConfigText
    MaxArgs,    \* bound: command line arguments
    Malformed,  \* a value that does not parse
    Missing,    \* a flag at the end of the line, without its value
    Unset,      \* not given, or not there yet
    Root        \* the capability an unset ceiling stands for

(* Compose's own variables are the part of the start that composes; `stage`    *)
(* says how far the whole start is.                                            *)
VARIABLES
    caller,     \* "main", or "library": another program that calls `serve`
    typed,      \* history: the arguments taken
    bindFlag,   \* bind_flag
    portFlag,   \* port_flag
    capFlags,   \* cap_flags
    mountFlags, \* mount_flags
    file,       \* config_text, once read
    intended,   \* the address resolve_bind names
    ceiling,    \* the scopes in force; {} is `unset`, as no ceiling may be empty
    bound,      \* the address of the open socket, or Unset
    face        \* posture and capability of the served Face, or Unset

flags == <<bindFlag, portFlag, capFlags, mountFlags>>
composing == <<lines, taken, fronting, aliases, spaces, dialled>>
vars == <<stage, caller, typed, flags, file, intended, ceiling, bound, face, composing>>

(* The lines of the file by key, in file order; web.port and the flag of the   *)
(* same name hold Localhost when they parse.                                   *)
Values(S) == Seq(S \cup {Malformed})
ConfigText == [mount : Values(Lines), webMount : Values(Lines), bind : Values(Addrs),
               port : Values({Localhost}), cap : Values(Scopes)]

ASSUME AddrsAssumption == Loopback \subseteq Addrs /\ Localhost \in Loopback
ASSUME FilesAssumption == Files \subseteq ConfigText
ASSUME UnsetAssumption ==
    /\ Unset \notin Addrs \cup {Malformed}
    /\ \A scopes \in SUBSET Scopes : scopes # Root
    /\ Malformed \notin Addrs \cup Scopes \cup Lines

Init ==
    /\ stage = "args"
    /\ caller \in {"main", "library"}
    /\ typed = <<>>
    /\ bindFlag = Unset /\ portFlag = Unset
    /\ capFlags = <<>> /\ mountFlags = <<>>
    /\ file = Unset /\ intended = Unset /\ ceiling = {}
    /\ bound = Unset /\ face = Unset
    /\ lines = <<>> /\ taken = 0
    /\ fronting = <<>> /\ aliases = <<>> /\ spaces = <<>>
    /\ dialled = {}

Flags == {"--bind", "--port", "--cap", "--mount", "--config", "--help", "unknown"}
Arguments == Flags \X (Addrs \cup Scopes \cup Lines \cup {Malformed, Missing, Unset})

Fail == stage' = "failed"

-------------------------------------------------------------------------------
(* The arguments, one turn of the loop each. A value is kept as it was typed;  *)
(* only a port is parsed here. A flag given again replaces its value, except   *)
(* that scopes and mounts add up.                                              *)
Types(flag, value) ==
    /\ stage = "args" /\ caller = "main"
    /\ Len(typed) < MaxArgs
    /\ typed' = Append(typed, <<flag, value>>)
    /\ UNCHANGED <<caller, file, intended, ceiling, bound, face, composing>>

TakeBind ==
    \E v \in Addrs \cup {Malformed} :
        /\ Types("--bind", v)
        /\ bindFlag' = v
        /\ UNCHANGED <<stage, portFlag, capFlags, mountFlags>>

TakePort ==
    /\ Types("--port", Localhost)
    /\ portFlag' = Localhost
    /\ UNCHANGED <<stage, bindFlag, capFlags, mountFlags>>

TakeCap ==
    \E v \in Scopes \cup {Malformed} :
        /\ Types("--cap", v)
        /\ capFlags' = Append(capFlags, v)
        /\ UNCHANGED <<stage, bindFlag, portFlag, mountFlags>>

TakeMount ==
    \E v \in Lines \cup {Malformed} :
        /\ Types("--mount", v)
        /\ mountFlags' = Append(mountFlags, v)
        /\ UNCHANGED <<stage, bindFlag, portFlag, capFlags>>

(* --config names the file that Read reads; its path does not matter here.     *)
TakeConfig ==
    /\ Types("--config", Unset)
    /\ UNCHANGED <<stage, flags>>

(* A port that is no number, a flag with no value, a flag nobody knows.        *)
RefuseArg ==
    \E flag \in {"--bind", "--port", "--cap", "--mount", "--config", "unknown"} :
        /\ Types(flag, IF flag = "--port" THEN Malformed ELSE Missing)
        /\ Fail
        /\ UNCHANGED flags

Help ==
    /\ Types("--help", Missing)
    /\ stage' = "helped"
    /\ UNCHANGED flags

-------------------------------------------------------------------------------
(* What the main thread works out before it dials or binds anything.           *)
Works(from, to) ==
    /\ stage = from /\ caller = "main"
    /\ stage' \in {to, "failed"}
    /\ UNCHANGED <<caller, typed, flags, bound, face, taken, fronting, aliases, spaces, dialled>>

Elements(values) == {values[k] : k \in 1 .. Len(values)}

(* The file is read whole, or the start fails.                                 *)
Read ==
    /\ Works("args", "mounts")
    /\ IF stage' = "failed" THEN UNCHANGED file ELSE file' \in Files
    /\ UNCHANGED <<intended, ceiling, lines>>

(* Faulty variant: the command line's mounts replace this process's own.       *)
MountValuesReplaced ==
    file.mount \o (IF mountFlags # <<>> THEN mountFlags ELSE file.webMount)

(* The machine's mounts, this process's own, and those of the command line.    *)
MountValues == file.mount \o file.webMount \o mountFlags

MountsGood == MountValues # <<>> /\ Malformed \notin Elements(MountValues)

ParseMounts ==
    /\ Works("mounts", "bind")
    /\ (stage' = "failed") <=> ~ MountsGood
    /\ lines' = IF MountsGood THEN MountValues ELSE lines
    /\ UNCHANGED <<file, intended, ceiling>>

(* `value_for`: the first line of a key. *)
ValueFor(values) == IF values = <<>> THEN Unset ELSE values[1]

(* Faulty variant: the file's contradiction is not seen behind a flag.         *)
BindConflictIfRead ==
    \/ bindFlag # Unset /\ portFlag # Unset
    \/ /\ bindFlag = Unset /\ portFlag = Unset
       /\ ValueFor(file.bind) # Unset /\ ValueFor(file.port) # Unset

BindConflict ==
    \/ bindFlag # Unset /\ portFlag # Unset
    \/ ValueFor(file.bind) # Unset /\ ValueFor(file.port) # Unset

FirstGiven(spellings) ==
    spellings[CHOOSE k \in DOMAIN spellings :
                  /\ spellings[k] # Unset
                  /\ \A j \in 1 .. (k - 1) : spellings[j] = Unset]

(* Faulty variant: a --port flag is looked for after the file's web.bind.      *)
BindSpelledFileFirst ==
    FirstGiven(<<bindFlag, ValueFor(file.bind), portFlag, ValueFor(file.port), Localhost>>)

(* The value that decides the address: flags, then the file, then the default. *)
BindSpelled ==
    FirstGiven(<<bindFlag, portFlag, ValueFor(file.bind), ValueFor(file.port), Localhost>>)

BindGood == ~ BindConflict /\ BindSpelled # Malformed

ResolveBind ==
    /\ Works("bind", "ceiling")
    /\ (stage' = "failed") <=> ~ BindGood
    /\ intended' = IF BindGood THEN BindSpelled ELSE intended
    /\ UNCHANGED <<file, ceiling, lines>>

(* Faulty variant: flags are added to the file's lines.                        *)
CapValuesUnion == capFlags \o file.cap

(* Flags replace the file's lines wholesale.                                   *)
CapValues == IF capFlags # <<>> THEN capFlags ELSE file.cap

(* `Ceiling::scoped`, or `unset` when nobody named a scope.                    *)
ResolveCeiling ==
    LET named == Elements(CapValues)
    IN  /\ Works("ceiling", "admit")
        /\ (stage' = "failed") <=> (Malformed \in named)
        /\ ceiling' = IF Malformed \in named THEN {} ELSE named
        /\ UNCHANGED <<file, intended, lines>>

-------------------------------------------------------------------------------
(* Posture::of and the intended posture of main: loopback owns, others read.   *)
Posture(addr) == IF addr \in Loopback THEN "LocalOwner" ELSE "ReadOnly"

Admits(scopes, posture) == ~ (posture = "ReadOnly" /\ scopes = {})

Capability == IF ceiling = {} THEN Root ELSE ceiling

(* Faulty variant: the ceiling is not asked for before the bind.               *)
AdmitAll ==
    /\ Works("admit", "dialling")
    /\ stage' = "dialling"
    /\ UNCHANGED <<file, intended, ceiling, lines>>

(* Before anything is dialled or bound.                                        *)
Admit ==
    /\ Works("admit", "dialling")
    /\ (stage' = "failed") <=> ~ Admits(ceiling, Posture(intended))
    /\ UNCHANGED <<file, intended, ceiling, lines>>

Composing ==
    /\ ComposeNext
    /\ UNCHANGED <<caller, typed, flags, file, intended, ceiling, bound, face>>

(* The address may be taken, or not be this machine's.                         *)
Bind ==
    /\ stage = "composed"
    /\ \/ bound' = intended /\ stage' = "bound"
       \/ Fail /\ UNCHANGED bound
    /\ UNCHANGED <<caller, typed, flags, file, intended, ceiling, face, composing>>

(* Any other program: a listener and a ceiling of its own, a kernel of its own.*)
CallServe ==
    /\ stage = "args" /\ caller = "library"
    /\ bound' \in Addrs
    /\ ceiling' \in SUBSET Scopes
    /\ stage' = "bound"
    /\ UNCHANGED <<caller, typed, flags, file, intended, face, composing>>

(* Faulty variant: serve leaves the refusal to the program that calls it.      *)
ServeTrusting ==
    /\ stage = "bound"
    /\ face' = [posture |-> Posture(bound), capability |-> Capability]
    /\ stage' = "serving"
    /\ UNCHANGED <<caller, typed, flags, file, intended, ceiling, bound, composing>>

(* main's look at the bound address and serve's own: both derive the posture   *)
(* from the socket, and stop when it cannot be read or the ceiling refuses it. *)
Serve ==
    /\ stage = "bound"
    /\ \/ /\ Admits(ceiling, Posture(bound))
          /\ face' = [posture |-> Posture(bound), capability |-> Capability]
          /\ stage' = "serving"
       \/ Fail /\ UNCHANGED face
    /\ UNCHANGED <<caller, typed, flags, file, intended, ceiling, bound, composing>>

Next ==
    \/ TakeBind \/ TakePort \/ TakeCap \/ TakeMount \/ TakeConfig \/ RefuseArg \/ Help
    \/ Read \/ ParseMounts \/ ResolveBind \/ ResolveCeiling \/ Admit
    \/ Composing \/ Bind \/ CallServe \/ Serve

Spec == Init /\ [][Next]_vars

-------------------------------------------------------------------------------
Stages == {"args", "helped", "mounts", "bind", "ceiling", "admit", "dialling", "composed",
           "bound", "serving", "failed"}

TypeOK ==
    /\ stage \in Stages
    /\ caller \in {"main", "library"}
    /\ typed \in Seq(Arguments)
    /\ bindFlag \in Addrs \cup {Malformed, Unset}
    /\ portFlag \in {Localhost, Unset}
    /\ capFlags \in Values(Scopes)
    /\ mountFlags \in Values(Lines)
    /\ file \in Files \cup {Unset}
    /\ intended \in Addrs \cup {Unset}
    /\ ceiling \in SUBSET Scopes
    /\ bound \in Addrs \cup {Unset}
    /\ face = Unset \/ face \in [posture : {"LocalOwner", "ReadOnly"},
                                 capability : {Root} \cup SUBSET Scopes]

(* Root is never served beyond loopback, and neither is a write surface,       *)
(* whoever calls serve_until_error and with what (serve.rs:104): the refusal   *)
(* is made where the socket is known, not only in the binary.                  *)
RootNeverBeyondLoopback ==
    stage = "serving" /\ bound \notin Loopback =>
        face.posture = "ReadOnly" /\ face.capability # Root

Opened == caller = "main" /\ bound # Unset

(* The binary never opens a socket that its ceiling may not be served on       *)
(* (main.rs:138): the refusal precedes the bind, "so the socket never opens".  *)
SocketOnlyIfAdmitted == Opened => Admits(ceiling, Posture(bound))

(* Nor before every mount line it was given, from three places, has its place  *)
(* in the chain and every eager peer has answered (main.rs:103, mounts.rs).    *)
EveryMountServed ==
    Opened =>
        /\ Len(lines) = Len(file.mount) + Len(file.webMount) + Len(mountFlags)
        /\ lines # <<>> /\ Whole

Given(args, flag) == {args[k][2] : k \in {j \in 1 .. Len(args) : args[j][1] = flag}}
GivenLast(args, flag, value) ==
    \E k \in 1 .. Len(args) :
        /\ args[k] = <<flag, value>>
        /\ \A j \in 1 .. Len(args) : j > k => args[j][1] # flag

(* A socket beyond loopback is one that the operator spelled out (config.rs    *)
(* `resolve_bind`): in the last --bind, or in web.bind with no address on the  *)
(* command line. A --port never widens it: "surprise here fails toward LESS    *)
(* exposure, never more" (config.rs:65).                                       *)
ExposureIsSpelled ==
    Opened /\ bound \notin Loopback =>
        \/ GivenLast(typed, "--bind", bound)
        \/ /\ Given(typed, "--bind") = {} /\ Given(typed, "--port") = {}
           /\ \E k \in 1 .. Len(file.bind) : file.bind[k] = bound

(* What requests hold is what the operator typed, or else what the file says,  *)
(* "never a union" of both (config.rs `resolve_ceiling`).                      *)
CeilingIsSpelled ==
    Opened =>
        ceiling = IF Given(typed, "--cap") # {} THEN Given(typed, "--cap") ELSE Elements(file.cap)

(* One setting spelled two ways at one level opens no socket, and a flag does  *)
(* not hide that the file does it (config.rs `resolve_bind`).                  *)
ContradictionNeverOpens ==
    Opened =>
        /\ Given(typed, "--bind") = {} \/ Given(typed, "--port") = {}
        /\ file.bind = <<>> \/ file.port = <<>>

(* "a config that cannot mean one thing should never be half-read"             *)
(* (config.rs:68), and one with two web.bind lines that differ cannot.         *)
NeverHalfRead ==
    Opened => \A j, k \in 1 .. Len(file.bind) : file.bind[j] = file.bind[k]
===============================================================================
