SPECIFICATION Spec
CONSTANT Polls = 30
INVARIANT TimeoutRollsBack
