--------------------------- MODULE MCContentUpdate ---------------------------
(* ContentUpdate for TLC.                                                    *)
EXTENDS ContentUpdate

\* Two tracks of one name; then one of them is dropped, with a later track of
\* the channel in which the other stays.
SameNames == << {<<0, 1>>, <<1, 2>>, <<2, 2>>, <<2, 3>>},
                {<<0, 1>>, <<2, 2>>} >>

\* An advert comes, goes and comes back beside one that stays.
Returning == << {<<0, 1>>, <<0, 3>>},
                {<<0, 1>>},
                {<<0, 1>>, <<0, 3>>} >>

\* The server does not tell the size of the advert that comes and goes.
ReturningUnsized == {<<0, 3>>}

Crashes == {"crash", "rename"}
Renames == {"rename"}
=============================================================================
