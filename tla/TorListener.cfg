\* Three binds: the daemon may still hold the connections of the first two while
\* the third is under way.
CONSTANT MaxBinds = 3
SPECIFICATION FairSpec
INVARIANTS PublishedIsServed BoundIsPublished OneServiceHeld
PROPERTIES BindEnds StrayServicesGo
\* The last bind may fail and nothing be left to do.
CHECK_DEADLOCK FALSE
