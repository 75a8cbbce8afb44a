CONSTANT Magnifications <- Signs
SPECIFICATION Spec
INVARIANT MagnificationsPositive
\* main() may return, and what it does once it runs is FramePipeline.
CHECK_DEADLOCK FALSE
