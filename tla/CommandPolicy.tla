---------------------------- MODULE CommandPolicy ----------------------------
(***************************************************************************)
(* Which verifier commands trusted_runner.py executes                      *)
(* (_validate_command_argv) and which of the resulting command receipts    *)
(* trust_projection.py accepts later (_valid_command_receipt).  The two    *)
(* are separate implementations of one policy.                             *)
(*                                                                         *)
(* An argument is a word.  The words stand for the cases the policy tells  *)
(* apart: exact and other spellings of the runtimes, options on and off    *)
(* the allowlists, and names of committed files in their spellings.        *)
(***************************************************************************)
EXTENDS Naturals, Sequences, SequencesExt

\* A file that is not committed, or that a word does not name at all
NoFile == "no file"

\* FIXED_RUNTIME_PATHS and other spellings of the same programs: the kind
\* follows from the name, and only the fixed path is bound.
Kind(exe) ==
    CASE exe \in {"python", "python alias"} -> "python"
      [] exe \in {"node", "node alias"} -> "node"
      [] exe \in {"pwsh", "pwsh alias"} -> "powershell-file"
      [] OTHER -> "none"

\* _trusted_runtime_binding with _runtime_path_is_lexically_canonical
Bound(exe) == exe \in {"python", "node", "pwsh"}

\* argument.startswith("-")
Option(word) == word \in {"-m", "-c", "-", "-q", "-k", "--maxfail=2", "--test", "--inspect",
                          "-File", "-NoProfile", "-noprofile", "-NonInteractive", "-NoP"}
SafePytestOption(word) == word \in {"-q", "--maxfail=2"}
SafeUnittestOption(word) == word \in {"-q", "-c"}
SafeNodeOption(word) == word = "--test"
AllowedModules == {"pytest", "unittest"}

\* _tracked_workspace_file: the committed file a path names, relative to the
\* workspace or absolute.  A path of another file, or one below an
\* operational directory, is refused.
FileOf(word) ==
    CASE word \in {"a.py", "/ws/a.py"} -> "/ws/a.py"
      [] word = "b.py" -> "/ws/b.py"
      [] OTHER -> NoFile

\* The same for a pytest target, whose part after "::" is not of the path.
TestFileOf(word) == IF word \in {"a.py::t", "a.py::u"} THEN "/ws/a.py" ELSE FileOf(word)

\* SAFE_DOTTED_TEST and _tracked_dotted_test: the longest prefix of a dotted
\* name that is a module.  "a.py" is the attribute py of module a.
Dotted(word) == word \in {"a.T", "a.U", "b.T", "z.T", "a.py", "b.py"}
ModuleFileOf(word) ==
    CASE word \in {"a.T", "a.U", "a.py"} -> "/ws/a.py"
      [] word \in {"b.T", "b.py"} -> "/ws/b.py"
      [] OTHER -> NoFile

\* The words that are no options, in their order
Positional(args) ==
    LET kept[n \in 0..Len(args)] ==
            IF n = 0 THEN <<>>
            ELSE IF Option(args[n]) THEN kept[n - 1] ELSE Append(kept[n - 1], args[n])
    IN  kept[Len(args)]

Files(words, F(_)) == [i \in DOMAIN words |-> F(words[i])]
Committed(files) == NoFile \notin ToSet(files)

-----------------------------------------------------------------------------
(* The runner *)

\* _python_module_argument_targets accepts.
ModuleArguments(module, args) ==
    LET targets == Positional(args) IN
    /\ targets # <<>>
    /\ \/ /\ module = "unittest" /\ "discover" \notin ToSet(args)
          /\ \A word \in ToSet(args) : Option(word) => SafeUnittestOption(word)
          /\ \A word \in ToSet(targets) : Dotted(word)
       \/ /\ module = "pytest"
          /\ \A word \in ToSet(args) : Option(word) => SafePytestOption(word)

\* _validate_python_module_arguments: the files of the targets
ModuleFiles(module, args) ==
    IF module = "unittest" THEN Files(Positional(args), ModuleFileOf)
                           ELSE Files(Positional(args), TestFileOf)

Refused == [kind |-> "refused"]
\* a policy record; code_path may be None
PolicyOf(kind, executed, path, paths) ==
    [kind |-> kind, executed |-> executed, code_path |-> path, code_paths |-> paths]

PythonPolicy(exe, args) ==
    IF args = <<>> \/ ToSet(args) \intersect {"-c", "-"} # {} THEN Refused
    ELSE IF args[1] = "-m"
    THEN IF /\ Len(args) >= 2 /\ args[2] \in AllowedModules
            /\ ModuleArguments(args[2], SubSeq(args, 3, Len(args)))
            /\ Committed(ModuleFiles(args[2], SubSeq(args, 3, Len(args))))
         THEN PolicyOf("python", <<exe>> \o args, NoFile,
                       ModuleFiles(args[2], SubSeq(args, 3, Len(args))))
         ELSE Refused
    ELSE IF ~ Option(args[1]) /\ FileOf(args[1]) # NoFile
         THEN PolicyOf("python", <<exe>> \o args, FileOf(args[1]), <<FileOf(args[1])>>)
         ELSE Refused

\* the code a node command names: every file under --test, else the first
NodeTargets(args) ==
    IF "--test" \in ToSet(args) \/ Positional(args) = <<>>
    THEN Positional(args) ELSE <<Positional(args)[1]>>

NodePolicy(exe, args) ==
    LET files == Files(NodeTargets(args), FileOf) IN
    IF /\ \A word \in ToSet(args) : Option(word) => SafeNodeOption(word)
       /\ files # <<>> /\ Committed(files)
    THEN PolicyOf("node", <<exe>> \o args, files[1], files)
    ELSE Refused

\* .lower()
Lower(word) ==
    CASE word = "-File" -> "-file"
      [] word = "-NoProfile" -> "-noprofile"
      [] word = "-NonInteractive" -> "-noninteractive"
      [] OTHER -> word

\* _validated_powershell_script_arguments: no aliases, splatting or
\* metacharacters, nothing that abbreviates an option of the host
ScriptArguments(args) ==
    \A word \in ToSet(args) :
        word \notin {"-", "a;b", "-m", "-c", "--test", "--inspect", "--maxfail=2",
                     "-File", "-NoProfile", "-noprofile", "-NonInteractive", "-NoP"}

\* _validate_powershell_argv, which writes the host's arguments anew
PowerShellPolicy(exe, args) ==
    LET at == {i \in DOMAIN args : Lower(args[i]) = "-file"}
        f == CHOOSE i \in at : TRUE
        host == [i \in 1..(f - 1) |-> Lower(args[i])]
        script == SubSeq(args, f + 2, Len(args))
    IN  IF \/ "-" \in ToSet(args)
           \/ ~ \E i \in at : at = {i}
        THEN Refused
        ELSE IF /\ IsInjective(host)
                /\ ToSet(host) \subseteq {"-noprofile", "-noninteractive"}
                /\ f < Len(args) /\ ~ Option(args[f + 1])
                /\ FileOf(args[f + 1]) # NoFile
                /\ ScriptArguments(script)
             THEN PolicyOf("powershell-file",
                           <<exe, "-NoProfile", "-NonInteractive", "-File", FileOf(args[f + 1])>>
                               \o script,
                           FileOf(args[f + 1]), <<FileOf(args[f + 1])>>)
             ELSE Refused

\* _validate_command_argv
Policy(argv) ==
    IF ~ Bound(argv[1]) THEN Refused
    ELSE CASE Kind(argv[1]) = "python" -> PythonPolicy(argv[1], Tail(argv))
           [] Kind(argv[1]) = "node" -> NodePolicy(argv[1], Tail(argv))
           [] OTHER -> PowerShellPolicy(argv[1], Tail(argv))

\* _translate_workspace_argument: an absolute path of the workspace becomes the
\* sandbox's; anything else stays.
Translated(word) ==
    CASE word = "/ws/a.py" -> "/workspace/a.py"
      [] word = "/ws/b.py" -> "/workspace/b.py"
      [] OTHER -> word

\* roots_to_bind: the root of PowerShell, whose only binary lies below it, is
\* bound for PowerShell alone.
RootsBound(exe) ==
    {"/usr", "/lib"} \union IF Kind(exe) = "powershell-file" THEN {"/opt/pwsh"} ELSE {}

\* _canonical_isolation_argv: what bwrap is told
IsolationArgv(executed, network, environment) ==
    [roots |-> RootsBound(executed[1]), share_net |-> network, setenv |-> environment,
     command |-> <<executed[1]>> \o Files(Tail(executed), Translated)]

-----------------------------------------------------------------------------
(* The projection *)

\* The part of _valid_code_path_bindings that depends on the kind of command
KindBindings(policy) ==
    LET args == Tail(policy.executed) IN
    CASE policy.kind = "node" ->
           /\ policy.code_path # NoFile
           /\ \A word \in ToSet(args) : Option(word) => SafeNodeOption(word)
           /\ NodeTargets(args) # <<>>
           /\ ToSet(Files(NodeTargets(args), FileOf)) = ToSet(policy.code_paths)
      [] policy.kind = "powershell-file" ->
           /\ Len(args) >= 4
           /\ Files(SubSeq(args, 1, 3), Lower) = <<"-noprofile", "-noninteractive", "-file">>
           /\ FileOf(args[4]) = policy.code_path
           /\ Len(policy.code_paths) = 1
      [] OTHER ->
           IF Len(args) >= 2 /\ args[1] = "-m"
           THEN args[2] \in AllowedModules /\ ModuleArguments(args[2], SubSeq(args, 3, Len(args)))
           ELSE /\ policy.code_path # NoFile
                /\ args # <<>> /\ ~ Option(args[1]) /\ FileOf(args[1]) = policy.code_path

\* _valid_code_path_bindings, whose seen refuses a path it meets twice
CodePathsValid(policy) ==
    /\ policy.code_paths # <<>> /\ Committed(policy.code_paths)
    /\ IsInjective(policy.code_paths)
    /\ policy.code_path # NoFile => policy.code_path \in ToSet(policy.code_paths)
    /\ KindBindings(policy)

\* _valid_command_receipt, the part about the command
CommandProjected(argv, policy, launch, network, environment) ==
    /\ launch = IsolationArgv(policy.executed, network, environment)
    /\ Bound(argv[1]) /\ argv[1] = policy.executed[1] /\ Kind(argv[1]) = policy.kind
    /\ Tail(argv) = Tail(policy.executed)
    /\ CodePathsValid(policy)
=============================================================================
