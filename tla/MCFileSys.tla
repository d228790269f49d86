------------------------------ MODULE MCFileSys -----------------------------
EXTENDS FileSys, TLC
CONSTANTS p1, p2, a, b
Perms == Permutations(Proc)
Abs(n) == Path("root", <<n>>)
Rel(n) == Path("cwd", <<n>>)
One(op, n) == Call(op, Abs(n), NoPath)

\* Files in the root, with links.
FileCalls == { One("create", a), One("trunc", a), One("unlink", a), One("unlink", b),
               Call("link", Abs(a), Abs(b)) }

\* Directories, and paths through them.
DirCalls == { One("mkdir", a), One("unlink", a), One("chdir", a),
              Call("mkdir", Rel(b), NoPath), Call("unlink", Path("root", <<a, b>>), NoPath),
              Call("link", Rel(b), Rel(a)) }

\* A file in a directory that another process removes.
DeadCalls == { One("mkdir", a), One("unlink", a), Call("create", Path("root", <<a, b>>), NoPath) }
=============================================================================
