------------------------------ MODULE MCLaunch -------------------------------
(* Model values for the runs of Launch. *)
EXTENDS Launch

CONSTANTS on, off, bad, absent, work, home, root, here, blank, torn, none

Directories == {work, home, root}

\* In the directory of the work file, .env names another one.
Settings ==
    [dir \in Directories |->
        [config |-> IF dir = work THEN {home} ELSE {}, xdg |-> {}, home |-> {}]]

Shell(config, xdg, h) == [config |-> config, xdg |-> xdg, home |-> h]
At(dir, shell, dotenv) == [cwd |-> dir, shell |-> shell, loadDotenv |-> dotenv]

\* A relative path, a path from .env, a blank variable that hides .env beside an
\* XDG directory, no HOME, and a path from elsewhere to where .env differs.
Shells ==
    {At(work, Shell({here}, {}, {home}), TRUE), At(work, Shell({}, {}, {home}), TRUE),
     At(work, Shell({blank}, {work}, {home}), TRUE), At(work, Shell({here}, {}, {}), FALSE),
     At(home, Shell({work}, {}, {home}), TRUE)}

Nowhere == [dir \in Directories |-> absent]
Beginnings == {Nowhere, [Nowhere EXCEPT ![work] = on]}
=============================================================================
