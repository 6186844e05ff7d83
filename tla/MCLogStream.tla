---------------------------- MODULE MCLogStream -----------------------------
(* Two streams of a viewer or an administrator; two slots, one of them kept. *)
(* Below /a are the log /a/b and the link /a/l, which leads to /b.           *)
EXTENDS LogStream, TLC
CONSTANTS s1, s2, v, a
MCStreams == {s1, s2}
MCViewers == {v}
MCAdmins == {a}
pA == <<"/", "a">>
pAB == <<"/", "a", "/", "b">>
pAL == <<"/", "a", "/", "l">>
pB == <<"/", "b">>
MCRoots == {<<"/", "a", "/">>}
MCPaths == {pAB, pAL}
MCTexts ==
  {pA, pAB, pAL, pB} \cup MCRoots \cup
  {<<"/">>, <<"a">>,                              \* the root; not absolute
   <<"/", "a", "b">>,                             \* /ab, beside /a
   <<"/", "a", "/", "b", ".", ".", "l">>,         \* /a/b..l, refused for its dots
   <<"/", "a", "/", ".", ".", "/", "b">>,         \* /a/../b
   <<"/", "a", "/", "/", ".", "/", "b", "/">>,    \* /a//./b/, which is /a/b
   <<"/", ".", "/", "a", ".", "b">>}              \* /./a.b
MCLogPath == pAB
MCResolve == [p \in MCTexts |-> IF p = pAL THEN pB ELSE p]
MCAllowed == {pA}
MCBlocked == {pB}
MCPrefixes == {<<"/", "p", "/">>}
MCSymmetry == Permutations(MCStreams)
=============================================================================
