----------------------------- MODULE MCSigningPlan -----------------------------
(***************************************************************************)
(* Instances of SigningPlan for TLC: an application with code of every kind*)
(* the planner knows, what is left of it when parts are taken away, the    *)
(* same with one thing wrong in it, and the profiles a team may have.      *)
(***************************************************************************)
EXTENDS SigningPlan, TLC

Main == <<"main">>
Other == <<"other">>
Sub(label) == <<"main", label>>
WellFormed ==
    {Main, Other, <<"main", "watch", "ext">>} \cup {Sub(l) : l \in {"ext", "xpc", "watch", "clip", "stray"}}

\* An entry is the directory it lies in and what it is; Bundle adds an Info.plist.
Plain(in, is, at) == [in |-> in, is |-> is, at |-> at]
Bundle(in, is, at, id, platform) ==
    [in |-> in, is |-> is, at |-> at, id |-> id, info |-> TRUE, point |-> TRUE,
     companion |-> Main, platform |-> platform]

Base == Root :> Bundle(Root, ".app", 0, Main, "iphoneos")
Libraries ==
    ("lib" :> Plain(Root, "dir", 1)) @@ ("lib/a" :> Plain("lib", "framework", 2)) @@ ("lib/a/b" :> Plain("lib/a", "framework", 3))
    @@ ("lib/a/b/l" :> Plain("lib/a/b", "dylib", 4)) @@ ("lib/z" :> Plain("lib", "dylib", 5))
Extension ==
    ("plug" :> Plain(Root, "PlugIns", 6)) @@ ("plug/e" :> Bundle("plug", ".appex", 7, Sub("ext"), "iphoneos"))
    @@ ("plug/e/l" :> Plain("plug/e", "dylib", 8))
Service == ("plug/e/x" :> Plain("plug/e", "XPCServices", 9)) @@ ("plug/e/x/s" :> Bundle("plug/e/x", ".xpc", 10, Sub("xpc"), "none"))
WatchApp ==
    ("watch" :> Plain(Root, "Watch", 11)) @@ ("watch/w" :> Bundle("watch", ".app", 12, Sub("watch"), "watchos"))
    @@ ("watch/w/p" :> Plain("watch/w", "PlugIns", 13))
    @@ ("watch/w/p/e" :> Bundle("watch/w/p", ".appex", 14, <<"main", "watch", "ext">>, "watchos"))
Clip == ("clip" :> Plain(Root, "AppClips", 15)) @@ ("clip/c" :> Bundle("clip", ".app", 16, Sub("clip"), "iphoneos"))
Full == Base @@ Libraries @@ Extension @@ Service @@ WatchApp @@ Clip

Wholes == {Base, Base @@ Libraries, Base @@ Extension, Base @@ Libraries @@ Extension @@ Service,
           Base @@ WatchApp @@ Clip, Full}

\* One thing wrong, or one thing odd that is accepted.
Stray ==
    {"stray" :> Bundle(Root, ".appex", 20, Sub("stray"), "iphoneos"), "stray" :> Bundle("lib", ".app", 20, Sub("stray"), "none"),
     "stray" :> Plain("lib/a", "symlink", 20), "stray" :> Plain(Root, "variant", 20), "stray" :> Plain(Root, "special", 20),
     ("stray" :> Plain("lib/a", "PlugIns", 20)) @@ ("stray/e" :> Bundle("stray", ".appex", 21, Sub("stray"), "none")),
     ("stray" :> Plain("lib", "PlugIns", 20)) @@ ("stray/e" :> Bundle("stray", ".appex", 21, Sub("stray"), "none")),
     "stray" :> Plain("watch/w", "Watch", 20), "stray" :> Bundle("plug", ".app", 20, Sub("stray"), "none"),
     ("stray" :> Plain("lib/a/b", "framework", 20)) @@ ("stray/d" :> Plain("stray", "framework", 21))
         @@ ("stray/d/d" :> Plain("stray/d", "framework", 22)),
     "stray" :> Plain("lib/a/b", "framework", 20), "stray" :> Plain("clip/c", "dylib", 20)}
Odd ==
    {[Full EXCEPT !["plug/e"].id = Sub("clip")], [Full EXCEPT !["clip/c"].id = Other],
     [Full EXCEPT !["clip/c"].id = Sub("bad clip")], [Full EXCEPT !["watch/w"].id = Main],
     [Full EXCEPT !["plug/e"].info = FALSE], [Full EXCEPT !["watch/w/p/e"].point = FALSE],
     [Full EXCEPT !["watch/w"].companion = Other], [Full EXCEPT !["watch/w"].companion = NoId],
     [Full EXCEPT !["watch/w/p/e"].platform = "iphoneos"], [Full EXCEPT !["plug/e"].platform = "simulator"],
     [Full EXCEPT ![Root].platform = "simulator"]}

Profile(id, expires, devices, domains, services, container) ==
    [id |-> id, sound |-> TRUE, expires |-> expires, distribution |-> TRUE, certificate |-> TRUE,
     devices |-> devices, serial |-> 0, domains |-> domains, services |-> services, container |-> container]
Plainly == Profile(Main, 2, {}, {"*"}, {"*"}, TRUE)
ForDevices == [Plainly EXCEPT !.devices = {"device"}]
ForExtension == [Plainly EXCEPT !.id = Sub("ext")]
Foreign == [Plainly EXCEPT !.sound = FALSE]

NoRequest == [domains |-> <<>>, services |-> <<>>]
Job(a, r, s, c, api, type) ==
    [pinned |-> Main, app |-> a, request |-> r, ahead |-> 0, static |-> s, asc |-> c, api |-> api, type |-> type]

\* Every application against an empty account of the team.
PlanJobs == {Job(a, NoRequest, <<>>, {}, TRUE, t) :
                a \in Wholes \cup {Full @@ x : x \in Stray} \cup Odd, t \in {"testflight", "adhoc"}}
\* One application with one extension against the profiles on hand.
Hand == {<<>>, <<Plainly>>, <<Foreign>>, <<ForDevices, Plainly>>, <<[Plainly EXCEPT !.expires = 0]>>,
         <<[Plainly EXCEPT !.expires = 1], Plainly, ForExtension>>, <<[Plainly EXCEPT !.certificate = FALSE]>>,
         <<[Plainly EXCEPT !.distribution = FALSE], ForExtension>>}
ProfileJobs == {Job(Base @@ Extension, NoRequest, s, c, api, t) :
                   s \in Hand, c \in {{}, {ForExtension}, {ForDevices, [ForExtension EXCEPT !.expires = 1]}},
                   api \in BOOLEAN, t \in {"testflight", "adhoc"}}
\* One application against what it asks for and what its profile grants.
HostList == <<"h1", "h2", "h3">>
Asked == {<<>>, <<"h2", "h1">>, <<"h3", "bad", "h1", "h1">>, <<"h2", "h1", "h3">>}
Wanted == {<<>>, <<"CloudKit">>, <<"Evil", "CloudDocuments", "CloudKit", "CloudKit">>}
EntitlementJobs ==
    {Job(Base @@ Extension, [domains |-> d, services |-> v],
         <<Profile(Main, 2, {}, g, h, c), [ForExtension EXCEPT !.domains = g, !.services = h, !.container = c]>>,
         {}, FALSE, "testflight") :
        d \in Asked, v \in Wanted, g \in {{"*"}, {"-"}, {"h1"}, {"h2", "h3"}}, h \in {{"*"}, {"-"}, {"CloudDocuments"}},
        c \in BOOLEAN}
\* What the registry pins against what the project has built.
Another == Root :> Bundle(Root, ".app", 0, Other, "iphoneos")
Below == Root :> Bundle(Root, ".app", 0, Sub("ext"), "iphoneos")
Identities == {Base @@ Extension, Another, Another @@ Extension, Below}
PinJobs == {[Job(a, NoRequest, <<>>, {}, TRUE, "testflight") EXCEPT !.pinned = p] :
               a \in Identities, p \in {NoId, Main, Other}}
\* One application against clocks that do not agree.
ClockJobs == {[Job(Base @@ Extension, NoRequest, s, {}, TRUE, "testflight") EXCEPT !.ahead = d] :
                 s \in {<<>>, <<Plainly>>}, d \in {-2, -1, 1, 2}}
AllJobs == PlanJobs \cup ProfileJobs \cup EntitlementJobs \cup PinJobs \cup ClockJobs
=============================================================================
