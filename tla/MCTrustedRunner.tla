--------------------------- MODULE MCTrustedRunner ---------------------------
(* Every command of a few words, without faults; and two commands of one    *)
(* manifest with faults.                                                    *)
EXTENDS VerifiedRun

Words(set, lo, hi) == UNION {[1..n -> set] : n \in lo..hi}
Commands ==
    {<<exe>> \o args : exe \in {"python", "python alias"},
        args \in Words({"-m", "unittest", "-q", "a.T", "a.U", "z.T", "a.py"}, 0, 4)}
    \union
    {<<"python", "-m", "pytest">> \o args :
        args \in Words({"-q", "-k", "a.py", "/ws/a.py", "a.py::t", "a.py::u", "b.py", "gone.py"}, 0, 3)}
    \union
    {<<exe>> \o args : exe \in {"node", "node alias"},
        args \in Words({"--test", "--inspect", "a.py", "/ws/a.py", "b.py", "-c"}, 0, 3)}
    \union
    {<<"pwsh">> \o args :
        args \in Words({"-File", "-NoProfile", "-noprofile", "-NonInteractive", "a.py", "/ws/a.py", "arg"}, 0, 4)}
    \union
    {<<exe, "-NoProfile">> \o args : exe \in {"pwsh", "pwsh alias", "bash"},
        args \in Words({"-File", "-NonInteractive", "-NoP", "/ws/a.py", "a;b", "arg"}, 3, 4)}

Entry(path, portable, mode, below) ==
    [path |-> path, portable |-> portable, mode |-> mode, below |-> below]
Base == {Entry("a.py", "a.py", "100644", ""), Entry("b.py", "b.py", "100755", "")}

\* Two commits that run, one whose receipt is too large to be read again, and
\* one with each obstacle
CONSTANTS c1, c2, many, link, cased, large
TreeOf ==
    [c \in Commits |->
        CASE c = c2 -> Base \union {Entry("src/c.py", "src/c.py", "100644", "src")}
          [] c = link -> Base \union {Entry("l", "l", "120000", "")}
          [] c = cased -> Base \union {Entry("A.py", "a.py", "100644", "")}
          [] c \in {many, large} ->
               Base \union {Entry("d.py", "d.py", "100644", ""), Entry("e.py", "e.py", "100644", "")}
                    \union IF c = many THEN {} ELSE {Entry("f.py", "f.py", "100644", "")}
          [] OTHER -> Base]

\* A complete manifest, and ones that say something else in one place
Good == [form |-> "complete", artifact |-> "hashed", output |-> "hashed", large |-> FALSE,
         exit |-> 0, passed |-> 1, failed |-> 0, skipped |-> 0, reasons |-> 0,
         known |-> <<[passed |-> TRUE, expected |-> 1, observed |-> 1]>>,
         hashes |-> "lower", artifacts |-> 1, claims |-> {"functional"}, workers |-> FALSE]
Declarations ==
    {[Good EXCEPT !.form = "placeholder"], [Good EXCEPT !.artifact = "other"],
     [Good EXCEPT !.output = "empty"], [Good EXCEPT !.large = TRUE], [Good EXCEPT !.exit = 1],
     [Good EXCEPT !.failed = 1], [Good EXCEPT !.passed = 0],
     [Good EXCEPT !.skipped = 1], [Good EXCEPT !.skipped = 1, !.reasons = 1],
     [Good EXCEPT !.known = <<>>], [Good EXCEPT !.known[1].observed = 2],
     [Good EXCEPT !.known[1].passed = FALSE], [Good EXCEPT !.hashes = "upper"], [Good EXCEPT !.artifacts = 4],
     [Good EXCEPT !.claims = {"resource"}], [Good EXCEPT !.claims = {"performance"}],
     [Good EXCEPT !.workers = TRUE]}

Permissions == [gpu : BOOLEAN, network : BOOLEAN, metrics : {FALSE}, skips : {FALSE}, unchecked : {FALSE}]
Strict == [gpu |-> FALSE, network |-> FALSE, metrics |-> FALSE, skips |-> FALSE, unchecked |-> FALSE]
Lax == [Strict EXCEPT !.metrics = TRUE, !.skips = TRUE, !.unchecked = TRUE]

Case(m, d, c, permissions, n) ==
    [manifest |-> m, declared |-> d, head |-> c, permissions |-> permissions, faults |-> n]
Script == <<<<"pwsh", "-NoProfile", "-NonInteractive", "-File", "/ws/a.py">>>>
Two == <<<<"python", "a.py">>, <<"node", "--test", "b.py">>>>
Manifests ==
    {Case(<<argv>>, Good, c1, Strict, 0) : argv \in Commands} \union
    {Case(Script, d, c1, permissions, 1) : d \in Declarations, permissions \in {Strict, Lax}} \union
    {Case(Script, Good, c, permissions, 1) : c \in Commits, permissions \in Permissions} \union
    {Case(Two, Good, c2, [Strict EXCEPT !.network = TRUE], 3)}
=============================================================================
