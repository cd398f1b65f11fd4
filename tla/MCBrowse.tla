------------------------------ MODULE MCBrowse ------------------------------
(* Values of the constants for the runs of Browse: two films of the first  *)
(* library share a title, one has no year.                                 *)
EXTENDS Browse

MCFilms     == 1..3
MCLibraryOf == [f \in MCFilms |-> IF f = 3 THEN 12 ELSE 11]
MCTitle     == <<1, 1, 2>>
MCYear      == <<0, 2, 1>>
MCCreatedAt == <<1, 2, 2>>

Asked == [route |-> "items", types |-> {"Movie"}, parent |-> 0, ids |-> {}, maxYear |-> 0,
          isPlayed |-> "", sortBy |-> <<"SortName">>, desc |-> FALSE, start |-> 0, limit |-> 1]

MCScanned   == {{1}, {1, 3}, 1..3}
Reported(films, watched, begun) == [reported |-> films, played |-> watched, resumable |-> begun]

\* A film may be watched and begun again, or begun too little to be resumed.
MCHistories ==
  { Reported({}, {}, {}), Reported({1, 2}, {2}, {1}), Reported({1, 3}, {1}, {3}),
    Reported(1..3, {3}, {1, 2}), Reported({2, 3}, {}, {2, 3}), Reported(1..3, {1, 2}, {2}) }

MCRequests ==
  { Asked, [Asked EXCEPT !.types = {"Episode"}], [Asked EXCEPT !.types = {}, !.limit = 0],
    [Asked EXCEPT !.limit = 3], [Asked EXCEPT !.desc = TRUE] }
  \cup { [Asked EXCEPT !.parent = 11, !.isPlayed = p] : p \in {"", "true", "false"} }
  \cup { [Asked EXCEPT !.parent = p, !.types = {"Movie", "Series"}, !.sortBy = <<>>] : p \in {12, Junk} }
  \cup { [Asked EXCEPT !.ids = i] : i \in {{1, 3}, {2, Junk}, {Junk}} }
  \cup { [Asked EXCEPT !.maxYear = 1, !.desc = TRUE] }
  \cup { [Asked EXCEPT !.sortBy = s, !.desc = d] :
           s \in { <<"CommunityRating", "PremiereDate">>, <<"DatePlayed", "Name">> }, d \in BOOLEAN }
  \cup { [Asked EXCEPT !.sortBy = <<"DateCreated">>, !.limit = 2], [Asked EXCEPT !.sortBy = <<"Random">>] }
  \cup { [Asked EXCEPT !.route = r, !.limit = n] : r \in {"latest", "resume"}, n \in {1, 2} }
  \cup { [Asked EXCEPT !.route = "latest", !.parent = 11, !.start = 1] }

Entry(type, containers, video, audio) ==
  [type |-> type, containers |-> containers, video |-> video, audio |-> audio]

MCProfiles ==
  { {}, {Entry("Audio", {"mp3"}, {}, {"mp3"})},
    {Entry("Video", {"mkv"}, {}, {})},
    {Entry("Video", {"webm"}, {}, {}), Entry("Video", {"mp4"}, {"h264"}, {"aac"})},
    {Entry("Video", {"webm", "mp4"}, {"h264", "vp9"}, {"aac", "opus"}), Entry("Audio", {"flac"}, {}, {"flac"})} }

MCProbed ==
  << [container |-> <<"matroska", "webm">>, ext |-> "mkv",
      streams |-> {[kind |-> "video", codec |-> "h264"], [kind |-> "audio", codec |-> "dts"],
                   [kind |-> "subtitle", codec |-> "subrip"]}],
     [container |-> <<"mov", "mp4", "m4a">>, ext |-> "m4v",
      streams |-> {[kind |-> "video", codec |-> "h264"], [kind |-> "audio", codec |-> ""]}],
     [container |-> <<>>, ext |-> "avi", streams |-> {[kind |-> "video", codec |-> "h264"]}] >>
=============================================================================
