--------------------------- MODULE MCStoryScreens ----------------------------
EXTENDS StoryScreens, TLC
CONSTANTS ana, bruno, cora
MCPeople == {ana, bruno, cora}
MCMembers == {ana, bruno}
\* No definition names or chooses a member.
Symmetry == Permutations(MCMembers)
=============================================================================
