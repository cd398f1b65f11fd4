------------------------------ MODULE MCAccess ------------------------------
\* A television that names its device, a client that does not, a page that
\* asks without a credential, two operators racing for the setup, and requests
\* spelled in the ways the routing has to tell apart.
EXTENDS Access

Cased(w) == [word |-> w, form |-> "other", ext |-> "none"]
Dotted(w, e) == [word |-> w, form |-> "other", ext |-> e]

Path(segs)      == [segs |-> segs, slash |-> FALSE]
Get(segs)       == [method |-> "GET", path |-> Path(segs)]
Post(segs)      == [method |-> "POST", path |-> Path(segs)]
HeadOf(segs)    == [method |-> "HEAD", path |-> Path(segs)]

FromTelevision ==
  { Post(<<Cased("emby"), Cased("Users"), Cased("AuthenticateByName")>>),
    Post(<<Cased("Sessions"), Spelled("Capabilities")>>),
    Get(<<Cased("Users"), Spelled("U1"), Cased("Items")>>),
    Post(<<Spelled("Items"), Spelled("F1"), Cased("PlaybackInfo")>>),
    Get(<<Spelled("mediabrowser"), Cased("Videos"), Spelled("F1"), Dotted("stream", "one")>>),
    HeadOf(<<Spelled("Videos"), Spelled("F1"), Dotted("stream", "one")>>) }

FromAnonymous ==
  { Post(<<Spelled("Users"), Spelled("AuthenticateByName")>>),
    Get(<<Spelled("Users"), Spelled("U2")>>),
    [Get(<<Spelled("Users"), Cased("Me")>>) EXCEPT !.path.slash = TRUE] }

FromStranger ==
  { Post(<<Spelled("emby"), Spelled("emby"), Spelled("Users"), Spelled("AuthenticateByName")>>),
    Get(<<Cased("Users"), Spelled("AuthenticateByName")>>),
    Get(<<Cased("Items"), Cased("Latest"), Cased("Intros")>>),
    Get(<<Spelled("Items"), Spelled("Latest"), Spelled("Images")>>),
    Get(<<Spelled("Videos"), Spelled("F1"), Dotted("stream", "odd")>>),
    Get(<<Spelled("QuickConnect"), Spelled("Initiate")>>),
    Post(<<Cased("QuickConnect"), Spelled("Initiate")>>),
    Get(<<Cased("System"), Cased("Info"), Cased("Public")>>),
    Get(<<Cased("Items"), Spelled("F1"), Cased("Images"), Spelled("Primary")>>),
    HeadOf(<<Spelled("Sessions"), Cased("Playing")>>),
    HeadOf(<<Spelled("health")>>),
    Get(<<Spelled("emby"), Spelled("health")>>) }

MCRawRequests == ("tv" :> FromTelevision) @@ ("anon" :> FromAnonymous) @@ ("web" :> FromStranger)
Symmetry == Permutations(Slots)
=============================================================================
