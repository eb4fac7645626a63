----------------------------- MODULE MCMethodLocks -----------------------------
(* MethodLocks on a small library: an action that deploys objects.         *)
EXTENDS MethodLocks

CONSTANTS x, y, v, deploy, install, setting, create

Call3(m, o, a) == [method |-> m, this |-> o, arg |-> a]
deployX == Call3(deploy, x, None)
installX == Call3(install, x, None)
installY == Call3(install, y, None)
setV == Call3(setting, x, v)
setAlso == Call3(setting, y, v)
setNone == Call3(setting, y, None)
createX == Call3(create, x, None)
createY == Call3(create, y, None)

MCCalls == {deployX, installX, installY, setV, setAlso, setNone,
            createX, createY}
\* deploy calls itself and installs, also in parallel; installing changes a
\* setting (a method that locks only its argument) or creates an object (a
\* static method, called on two types that inherit it).
MCMayCall == {<<deployX, deployX>>, <<deployX, installX>>,
              <<installX, setV>>, <<installY, setAlso>>, <<installY, setNone>>,
              <<installX, installX>>,
              <<installX, createX>>, <<installY, createY>>}
MCMayFork == {<<deployX, installX>>, <<deployX, installY>>, <<installX, setAlso>>}
===============================================================================
