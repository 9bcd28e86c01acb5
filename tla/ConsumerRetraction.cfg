\* A post and its retraction: does the retraction always hide the post?
SPECIFICATION Spec
CONSTANTS
  wall = wall
  Events = {post, retraction}
  Posts = {post}
  Articles = {}
  Retractions = {retraction}
  Subject <- MCSubject
  Slots = {s1}
  NoSlot = NoSlot
  NoEvent = NoEvent
  MaxAttempts = 2
  MaxStalls = 1
INVARIANT
  RetractedPostsAreHidden
